---- MODULE Spec2Model ----
(***************************************************************************)
(* Model of the PipCal webhook relay (khaldoch/pipedrive).                 *)
(*                                                                         *)
(* One PipedriveService, built once by init(), is shared by every request  *)
(* the gin router serves.  Each request runs in its own goroutine; the     *)
(* service's callMappings map is the only state the goroutines share.      *)
(* Strings whose content matters (call identifiers, phone numbers) are     *)
(* sequences of one-character strings, so that prefixes and formatting are *)
(* computed and not assumed.                                               *)
(***************************************************************************)
EXTENDS Integers, Sequences, FiniteSets, TLC

----------------------------------------------------------------------------
(* Bounds of the model *)

\* goroutines that may be serving a request at the same time
MaxInFlight == 2
\* lead-created webhooks received in one run of the process
MaxLeads == 2
\* call-analyzed webhooks received in one run of the process
MaxAnalyzed == 1
\* the clock runs over the Unix seconds 0..MaxTime
MaxTime == 1
\* store operations applied in one run of the store on its own
MaxOps == 3

Slots == 1..MaxInFlight

----------------------------------------------------------------------------
(* Strings *)

Str_failed == <<"f", "a", "i", "l", "e", "d", "-">>
Str_plus == <<"+">>
Str_one == <<"1">>
Str_plus_one == <<"+", "1">>
EmptyStr == <<>>

\* strings.HasPrefix
HasPrefix(s, prefix) ==
    /\ Len(s) >= Len(prefix)
    /\ SubSeq(s, 1, Len(prefix)) = prefix

\* strings.ReplaceAll(s, ch, "")
ReplaceAll(s, ch) == SelectSeq(s, LAMBDA c : c # ch)

Digit(d) ==
    CASE d = 0 -> "0" [] d = 1 -> "1" [] d = 2 -> "2" [] d = 3 -> "3"
      [] d = 4 -> "4" [] d = 5 -> "5" [] d = 6 -> "6" [] d = 7 -> "7"
      [] d = 8 -> "8" [] d = 9 -> "9"

\* strconv.FormatInt(n, 10) for n >= 0
RECURSIVE FormatInt(_)
FormatInt(n) ==
    IF n < 10 THEN <<Digit(n)>>
    ELSE FormatInt(n \div 10) \o <<Digit(n % 10)>>

----------------------------------------------------------------------------
(* Values the outside world can send *)

\* person identifiers the CRM knows; 0 is Go's zero value of a missing field
PersonIDs == {1, 2}
\* identifiers of the persons the CRM finds or creates for an unknown caller
ContactIDs == {3}
LeadIDs == {"lead-1"}
Titles == {"Deal"}
Actions == {"create", "updated"}

\* call identifiers the call-automation platform hands out
IssuedOrder == << <<"c", "1">>, <<"c", "2">> >>
RetellCallIDs == { IssuedOrder[i] : i \in DOMAIN IssuedOrder }

\* phone lists a fetched person can carry
PhoneLists ==
    { <<>>,
      <<[Value |-> <<"(", "5", ")", " ", "1", "-", "2">>]>> }

PersonNames == {"Jane"}

\* credentials are either unset ("") or set
KeyValues == {"", "key"}

----------------------------------------------------------------------------
(* State *)

VARIABLES
    config,        \* *Config loaded once by init(): the three credentials
    callMappings,  \* PipedriveService.callMappings: callID -> CallMapping
    now,           \* time.Now().Unix()
    crashed,       \* the Go runtime ended the process with a fatal error
    received,      \* per endpoint: number of webhook requests received
    pc,            \* per goroutine: where its handler is
    kind,          \* per goroutine: the endpoint it serves
    payload,       \* per goroutine: the bound JSON payload
    local,         \* per goroutine: the processor's local variables
    out,           \* per goroutine: the outbound requests issued, in order
    inp,           \* per goroutine: the replies to them, in order
    resp,          \* per goroutine: the HTTP response written
    access,        \* per goroutine: "none", or inside a map "read" / "write"
    racedW,        \* per goroutine: its map access overlapped another's write
    ops            \* the store operations applied, in order (SpecStore)

shared == <<config, callMappings, now, crashed, received, ops>>
perReq == <<pc, kind, payload, local, out, inp, resp>>
mapAcc == <<access, racedW>>
vars == <<config, callMappings, now, crashed, received, ops,
          pc, kind, payload, local, out, inp, resp, access, racedW>>

----------------------------------------------------------------------------
(* Configuration *)

HasPipedriveConfig == config.PipedriveAPIKey # ""

HasRetellConfig == config.RetellAPIKey # "" /\ config.RetellAssistantID # ""

----------------------------------------------------------------------------
(* The correlation store *)

CallMapping(personName, phoneNumber, leadTitle, personID, timestamp) ==
    [PersonName |-> personName, PhoneNumber |-> phoneNumber,
     LeadTitle |-> leadTitle, PersonID |-> personID, Timestamp |-> timestamp]

\* Go's zero value of CallMapping, returned with exists = false
ZeroCallMapping == CallMapping("", EmptyStr, "", 0, 0)

\* A store that inserts only when the identifier is new, as a record that is
\* "never mutated" would ask for: not what storeCallMapping does.
storeCallMapping_InsertOnly(m, callID, personName, phoneNumber, leadTitle, personID, t) ==
    [k \in DOMAIN m \cup {callID} |->
        IF k \in DOMAIN m THEN m[k]
        ELSE CallMapping(personName, phoneNumber, leadTitle, personID, t)]

\* p.callMappings[callID] = CallMapping{...}
storeCallMapping(m, callID, personName, phoneNumber, leadTitle, personID, t) ==
    [k \in DOMAIN m \cup {callID} |->
        IF k = callID
        THEN CallMapping(personName, phoneNumber, leadTitle, personID, t)
        ELSE m[k]]

\* A lookup that reports every identifier as found: not what getCallMapping
\* does.
getCallMapping_AlwaysFound(m, callID) ==
    IF callID \in DOMAIN m
    THEN [mapping |-> m[callID], exists |-> TRUE]
    ELSE [mapping |-> ZeroCallMapping, exists |-> TRUE]

\* mapping, exists := p.callMappings[callID]
getCallMapping(m, callID) ==
    IF callID \in DOMAIN m
    THEN [mapping |-> m[callID], exists |-> TRUE]
    ELSE [mapping |-> ZeroCallMapping, exists |-> FALSE]

----------------------------------------------------------------------------
(* Replies of the external services *)

\* A reply to makePipedriveRequest: err is a transport failure; otherwise a
\* status code and a body that decodes (json) into success/data or does not.
PipedriveReply(err, status, json, success, data) ==
    [err |-> err, status |-> status, json |-> json, success |-> success,
     data |-> data]

Null == [null |-> TRUE]

PipedrivePerson(id, name, phone) == [ID |-> id, Name |-> name, Phone |-> phone]

TransportError == PipedriveReply(TRUE, 0, FALSE, FALSE, Null)

\* what GET /persons/{id} can answer
PersonReplies(id) ==
    { TransportError,
      PipedriveReply(FALSE, 404, TRUE, FALSE, Null),
      PipedriveReply(FALSE, 200, FALSE, FALSE, Null),
      PipedriveReply(FALSE, 200, TRUE, FALSE, Null),
      PipedriveReply(FALSE, 200, TRUE, TRUE, Null) }
    \cup { PipedriveReply(FALSE, 200, TRUE, TRUE, PipedrivePerson(id, n, ph)) :
             n \in PersonNames, ph \in PhoneLists }

\* what GET /persons/search can answer: data holds the items found
SearchReplies ==
    { TransportError,
      PipedriveReply(FALSE, 200, FALSE, FALSE, <<>>),
      PipedriveReply(FALSE, 200, TRUE, TRUE, <<>>) }
    \cup { PipedriveReply(FALSE, 200, TRUE, TRUE,
                          <<PipedrivePerson(id, "Unknown Caller", <<>>)>>) :
             id \in ContactIDs }

\* what POST /persons can answer
CreatePersonReplies ==
    { TransportError,
      PipedriveReply(FALSE, 400, FALSE, FALSE, Null),
      PipedriveReply(FALSE, 400, TRUE, FALSE, Null),
      PipedriveReply(FALSE, 201, TRUE, TRUE, Null) }
    \cup { PipedriveReply(FALSE, 201, TRUE, TRUE,
                          PipedrivePerson(id, "Unknown Caller", <<>>)) :
             id \in ContactIDs }

\* what PUT /persons/{id} can answer
UpdateReplies ==
    { TransportError,
      PipedriveReply(FALSE, 404, TRUE, FALSE, Null),
      PipedriveReply(FALSE, 200, TRUE, TRUE, Null) }

\* what POST /activities can answer
ActivityReplies ==
    { TransportError,
      PipedriveReply(FALSE, 500, FALSE, FALSE, Null),
      PipedriveReply(FALSE, 400, TRUE, FALSE, Null),
      PipedriveReply(FALSE, 201, TRUE, TRUE, Null),
      PipedriveReply(FALSE, 201, TRUE, TRUE, [ID |-> 7]) }

\* what POST /notes can answer
NoteReplies ==
    { TransportError,
      PipedriveReply(FALSE, 201, TRUE, TRUE, [ID |-> 8]) }

\* A fetch that does not look at the status code: not what GetPersonByID does.
GetPersonByID_IgnoresStatus(reply) ==
    IF reply.err THEN [person |-> Null, err |-> "failed to make request"]
    ELSE IF ~reply.json THEN [person |-> Null, err |-> "decode"]
    ELSE IF ~reply.success THEN [person |-> Null, err |-> "failed to get person"]
    ELSE [person |-> reply.data, err |-> ""]

\* GetPersonByID: the person, or an error
GetPersonByID(reply) ==
    IF reply.err THEN [person |-> Null, err |-> "failed to make request"]
    ELSE IF reply.status # 200
    THEN [person |-> Null, err |-> "failed to get person: HTTP"]
    ELSE IF ~reply.json THEN [person |-> Null, err |-> "decode"]
    ELSE IF ~reply.success THEN [person |-> Null, err |-> "failed to get person"]
    ELSE [person |-> reply.data, err |-> ""]

\* An extraction that prefixes even the phone of a person without one: not
\* what extractPhoneFromPerson does.
extractPhoneFromPerson_NoEmptyCheck(person) ==
    LET p0 == IF Len(person.Phone) > 0 THEN person.Phone[1].Value ELSE EmptyStr
        p1 == ReplaceAll(p0, " ")
        p2 == ReplaceAll(p1, "-")
        p3 == ReplaceAll(p2, "(")
        p4 == ReplaceAll(p3, ")")
    IN  IF ~HasPrefix(p4, Str_plus) THEN Str_plus_one \o p4 ELSE p4

\* extractPhoneFromPerson (method): first phone entry, cleaned and prefixed
extractPhoneFromPerson(person) ==
    IF Len(person.Phone) > 0
    THEN LET p0 == person.Phone[1].Value
             p1 == ReplaceAll(p0, " ")
             p2 == ReplaceAll(p1, "-")
             p3 == ReplaceAll(p2, "(")
             p4 == ReplaceAll(p3, ")")
         IN  IF ~HasPrefix(p4, Str_plus) THEN Str_plus_one \o p4
             ELSE IF HasPrefix(p4, Str_one) /\ ~HasPrefix(p4, Str_plus_one)
             THEN Str_plus \o p4
             ELSE p4
    ELSE EmptyStr

\* A reply to POST /v2/create-phone-call.  The body is described by how
\* encoding/json sees it: not JSON at all, or an object whose "call_id" and
\* "id" members are a string, absent, or of another type.
Absent == <<"absent">>
WrongType == <<"wrong type">>

RetellReply(err, status, json, call_id, id) ==
    [err |-> err, status |-> status, json |-> json, call_id |-> call_id,
     id |-> id]

\* ids: the call identifiers the platform can put into this reply
RetellReplies(ids) ==
    { RetellReply(TRUE, 0, FALSE, Absent, Absent),
      RetellReply(FALSE, 500, TRUE, Absent, Absent),
      RetellReply(FALSE, 200, FALSE, Absent, Absent),
      RetellReply(FALSE, 201, TRUE, Absent, Absent) }
    \cup { RetellReply(FALSE, 200, TRUE, WrongType, c) : c \in ids }
    \cup { RetellReply(FALSE, 201, TRUE, c, Absent) : c \in ids }

\* CreateRetellCall after the request was sent: the call id, or an error
CreateRetellCall(reply) ==
    IF reply.err
    THEN [callID |-> EmptyStr, err |-> "failed to make Retell AI request"]
    ELSE IF reply.status = 200 \/ reply.status = 201
    THEN IF ~reply.json \/ reply.call_id = WrongType
         THEN \* json.Unmarshal into RetellCallResponse failed
              IF reply.json /\ reply.call_id \notin {Absent, WrongType}
              THEN [callID |-> reply.call_id, err |-> ""]
              ELSE IF reply.json /\ reply.id \notin {Absent, WrongType}
              THEN [callID |-> reply.id, err |-> ""]
              ELSE [callID |-> EmptyStr,
                    err |-> "failed to parse Retell AI response"]
         ELSE [callID |-> IF reply.call_id = Absent THEN EmptyStr
                          ELSE reply.call_id,
               err |-> ""]
    ELSE [callID |-> EmptyStr, err |-> "Retell AI call failed: HTTP"]

\* UpdatePersonWithCallData: its error, "" for none
UpdatePersonWithCallData(reply) ==
    IF reply.err THEN "failed to update person with call data"
    ELSE IF reply.status # 200 THEN "failed to update person: HTTP"
    ELSE ""

\* A search whose failure leads on to the creation of the contact: not what
\* FindOrCreateContactByPhone does.
SearchContactByPhone_FailureCreates(reply) ==
    IF reply.err \/ ~reply.json THEN [outcome |-> "create", id |-> 0, err |-> ""]
    ELSE IF reply.success /\ Len(reply.data) > 0
    THEN [outcome |-> "found", id |-> reply.data[1].ID, err |-> ""]
    ELSE [outcome |-> "create", id |-> 0, err |-> ""]

\* FindOrCreateContactByPhone, first half: what the search leads to
SearchContactByPhone(reply) ==
    IF reply.err THEN [outcome |-> "error", id |-> 0,
                       err |-> "failed to search contact"]
    ELSE IF ~reply.json THEN [outcome |-> "error", id |-> 0,
                              err |-> "failed to decode search response"]
    ELSE IF reply.success /\ Len(reply.data) > 0
    THEN [outcome |-> "found", id |-> reply.data[1].ID, err |-> ""]
    ELSE [outcome |-> "create", id |-> 0, err |-> ""]

\* FindOrCreateContactByPhone, second half: what the creation leads to
CreateContactByPhone(reply) ==
    IF reply.err THEN [id |-> 0, err |-> "failed to create contact"]
    ELSE IF ~reply.json THEN [id |-> 0, err |-> "failed to decode create response"]
    ELSE IF ~reply.success \/ reply.data = Null
    THEN [id |-> 0, err |-> "failed to create contact in Pipedrive"]
    ELSE [id |-> reply.data.ID, err |-> ""]

----------------------------------------------------------------------------
(* Requests and responses *)

\* outbound requests, as logged in out[r]
GetPersonReq(id) == [op |-> "GET /persons/{id}", person_id |-> id]
CreateCallReq(to, name, title) ==
    [op |-> "POST /v2/create-phone-call", to_number |-> to,
     person_name |-> name, lead_title |-> title]
ActivityReq(personID, done, subject) ==
    [op |-> "POST /activities", person_id |-> personID, done |-> done,
     subject |-> subject]
SearchPersonReq(term) == [op |-> "GET /persons/search", term |-> term]
CreatePersonReq(name, phone) ==
    [op |-> "POST /persons", name |-> name, phone |-> phone]
UpdatePersonReq(personID) == [op |-> "PUT /persons/{id}", person_id |-> personID]
NoteReq(personID) == [op |-> "POST /notes", person_id |-> personID]

\* c.JSON(status, WebhookResponse{...})
WebhookResponse(status, success, message, data) ==
    [status |-> status, success |-> success, message |-> message,
     data |-> data]

NoData == [none |-> TRUE]
NoResponse == [status |-> 0]

\* gin.Recovery(): a panic in a handler is answered 500 with no body
RecoveredPanic == [status |-> 500, panic |-> TRUE]

NoPayload == [none |-> TRUE]
InvalidJSON == [invalid |-> TRUE]

LeadPayload(id, personID, title, action) ==
    [ID |-> id, PersonID |-> personID, Title |-> title, Action |-> action]

LeadPayloads ==
    { LeadPayload("", 1, "Deal", "create"),
      LeadPayload("lead-1", 0, "Deal", "create"),
      LeadPayload("lead-1", 1, "Deal", "updated") }
    \cup { LeadPayload(id, pid, t, "create") :
             id \in LeadIDs, pid \in PersonIDs, t \in Titles }

\* the callback names the first call the platform created, or no call
AnalyzedPayloads == { [CallID |-> c] : c \in {IssuedOrder[1], EmptyStr} }

\* The processors' local variables.  stores counts the calls of
\* storeCallMapping; recorded remembers whether the mapping asked for was in
\* the map when the lookup began (history, read by no action).
ZeroLocal ==
    [person |-> Null, phoneNumber |-> EmptyStr, callID |-> EmptyStr,
     callErr |-> "", stores |-> 0, exists |-> FALSE,
     callMapping |-> ZeroCallMapping, personID |-> 0, recorded |-> FALSE,
     invoked |-> FALSE]

----------------------------------------------------------------------------
(* Initial state: init() has loaded the configuration and built the service *)

Endpoints == {"lead", "analyzed"}

Init ==
    /\ config \in [PipedriveAPIKey : KeyValues, RetellAPIKey : KeyValues,
                   RetellAssistantID : KeyValues]
    /\ callMappings = <<>>
    /\ now = 0
    /\ crashed = FALSE
    /\ received = [e \in Endpoints |-> 0]
    /\ ops = <<>>
    /\ pc = [r \in Slots |-> "idle"]
    /\ kind = [r \in Slots |-> "none"]
    /\ payload = [r \in Slots |-> NoPayload]
    /\ local = [r \in Slots |-> ZeroLocal]
    /\ out = [r \in Slots |-> <<>>]
    /\ inp = [r \in Slots |-> <<>>]
    /\ resp = [r \in Slots |-> NoResponse]
    /\ access = [r \in Slots |-> "none"]
    /\ racedW = [r \in Slots |-> FALSE]

----------------------------------------------------------------------------
(* Unsynchronised access to the map *)

\* Goroutines whose open map access conflicts with r starting one of `mode`
Conflicting(r, mode) ==
    { q \in Slots \ {r} :
        access[q] # "none" /\ (mode = "write" \/ access[q] = "write") }

\* r enters the map.  PipedriveService holds no lock, so nothing orders r
\* against the accesses of other goroutines: it may find one in progress.
\* racedW marks every access that overlaps a write of another goroutine.
BeginAccess(r, mode) ==
    /\ access' = [access EXCEPT ![r] = mode]
    /\ racedW' = [q \in Slots |->
                    IF q = r
                    THEN \E c \in Conflicting(r, mode) : access[c] = "write"
                    ELSE IF q \in Conflicting(r, mode) /\ mode = "write"
                    THEN TRUE
                    ELSE racedW[q]]

EndAccess(r) ==
    /\ access' = [access EXCEPT ![r] = "none"]
    /\ racedW' = [racedW EXCEPT ![r] = FALSE]

\* Write the response; the handler returns
Finish(r, response) ==
    /\ resp' = [resp EXCEPT ![r] = response]
    /\ pc' = [pc EXCEPT ![r] = "done"]

\* The request sent and the reply to the previous one
Sent(r, request) == out' = [out EXCEPT ![r] = Append(@, request)]
Got(r, reply) == inp' = [inp EXCEPT ![r] = Append(@, reply)]

\* The router hands a new request to a goroutine; which idle slot stands for
\* it makes no difference, so the lowest one is taken.
Accepts(r, endpoint, max) ==
    /\ ~crashed
    /\ pc[r] = "idle"
    /\ \A q \in Slots : q < r => pc[q] # "idle"
    /\ received[endpoint] < max
    /\ received' = [received EXCEPT ![endpoint] = @ + 1]
    /\ kind' = [kind EXCEPT ![r] = endpoint]

----------------------------------------------------------------------------
(* POST /webhook/pipedrive/lead: PipedriveLeadWebhookHandler and           *)
(* ProcessPipedriveLead                                                    *)

LeadData(p) ==
    [lead_id |-> p.ID, person_id |-> p.PersonID, title |-> p.Title,
     action |-> p.Action]

LeadOK(p) ==
    WebhookResponse(200, TRUE, "Pipedrive lead webhook processed successfully",
                    LeadData(p))

LeadFailed(err) ==
    WebhookResponse(500, FALSE, <<"Failed to process lead: ", err>>, NoData)

LeadRejected ==
    WebhookResponse(400, FALSE,
                    "Missing required fields: data.id and data.person_id", NoData)

BadJSON == WebhookResponse(400, FALSE, "Invalid JSON payload", NoData)

\* A validation that asks for the lead id only: not what
\* PipedriveLeadWebhookHandler does.
LeadPayloadMissingFields_OnlyID(p) == p.ID = ""

\* the handler's validation of the bound payload
LeadPayloadMissingFields(p) == p.ID = "" \/ p.PersonID = 0

\* A processor that handles every action: not what ProcessPipedriveLead does.
IsLeadCreation_AnyAction(p) == p.Action \in Actions

\* "Only process lead creation events"
IsLeadCreation(p) == p.Action = "create"

\* A lead processor that goes on with the CRM key alone: not what
\* ProcessPipedriveLead does.
LeadIntegrationConfigured_CRMOnly == HasPipedriveConfig

\* "Try to process with real integration if configured"
LeadIntegrationConfigured == HasPipedriveConfig /\ HasRetellConfig

\* The handler binds and validates the payload and enters
\* ProcessPipedriveLead, which runs up to its first outbound request.
PipedriveLeadWebhookHandler(r) ==
    /\ Accepts(r, "lead", MaxLeads)
    /\ \E p \in LeadPayloads \cup {InvalidJSON} :
        /\ payload' = [payload EXCEPT ![r] = p]
        /\ IF p = InvalidJSON
           THEN Finish(r, BadJSON) /\ UNCHANGED <<out, local>>
           ELSE IF LeadPayloadMissingFields(p)
           THEN Finish(r, LeadRejected) /\ UNCHANGED <<out, local>>
           ELSE /\ local' = [local EXCEPT ![r].invoked = TRUE]
                /\ IF ~IsLeadCreation(p)
                   THEN Finish(r, LeadOK(p)) /\ out' = out
                   ELSE IF LeadIntegrationConfigured
                   THEN /\ Sent(r, GetPersonReq(p.PersonID))
                        /\ pc' = [pc EXCEPT ![r] = "lead_get_person"]
                        /\ resp' = resp
                   ELSE Finish(r, LeadOK(p)) /\ out' = out
    /\ UNCHANGED <<config, callMappings, now, crashed, ops, inp,
                   access, racedW>>

\* GET /persons/{id} answers: GetPersonByID returns, the phone is extracted
\* and, when there is one, the call-creation request is sent.
LeadGetPersonReturns(r) ==
    /\ ~crashed
    /\ pc[r] = "lead_get_person"
    /\ \E reply \in PersonReplies(payload[r].PersonID) :
        LET got == GetPersonByID(reply)
            person == got.person
        IN  /\ Got(r, reply)
            /\ IF got.err # ""
               THEN /\ Finish(r, LeadFailed(<<"failed to get person details: ",
                                              got.err>>))
                    /\ UNCHANGED <<local, out>>
               ELSE IF person = Null
               THEN \* extractPhoneFromPerson dereferences the nil person
                    /\ Finish(r, RecoveredPanic)
                    /\ UNCHANGED <<local, out>>
               ELSE LET phoneNumber == extractPhoneFromPerson(person)
                    IN  IF phoneNumber = EmptyStr
                        THEN /\ Finish(r, LeadOK(payload[r]))
                             /\ local' = [local EXCEPT ![r].person = person]
                             /\ out' = out
                        ELSE /\ local' = [local EXCEPT
                                            ![r].person = person,
                                            ![r].phoneNumber = phoneNumber]
                             /\ Sent(r, CreateCallReq(phoneNumber, person.Name,
                                                      payload[r].Title))
                             /\ pc' = [pc EXCEPT ![r] = "lead_create_call"]
                             /\ resp' = resp
    /\ UNCHANGED <<shared, kind, payload, access, racedW>>

\* The call identifier ProcessPipedriveLead goes on with
LeadCallID(res, t) ==
    IF res.err # "" THEN Str_failed \o FormatInt(t) ELSE res.callID

\* The platform names every call it creates differently: the identifier of a
\* new call is one it has not handed to this service before.
NewCallIDs ==
    LET used == DOMAIN callMappings \cup { local[q].callID : q \in Slots }
        unused == { i \in DOMAIN IssuedOrder : IssuedOrder[i] \notin used }
    IN  IF unused = {} THEN {}
        ELSE {IssuedOrder[CHOOSE i \in unused : \A j \in unused : i <= j]}

\* POST /v2/create-phone-call answers: CreateRetellCall returns, a failure is
\* replaced by the placeholder identifier, and storeCallMapping is entered.
LeadCreateCallReturns(r) ==
    /\ ~crashed
    /\ pc[r] = "lead_create_call"
    /\ \E reply \in RetellReplies(NewCallIDs) :
        LET res == CreateRetellCall(reply)
        IN  /\ Got(r, reply)
            /\ local' = [local EXCEPT ![r].callID = LeadCallID(res, now),
                                      ![r].callErr = res.err]
    /\ BeginAccess(r, "write")
    /\ pc' = [pc EXCEPT ![r] = "lead_storing"]
    /\ UNCHANGED <<shared, kind, payload, out, resp>>

\* A processor that asks for the call again after a failed request: not what
\* ProcessPipedriveLead does.
LeadStoreCallMapping_Retries(r) ==
    /\ ~crashed
    /\ pc[r] = "lead_storing"
    /\ callMappings' = storeCallMapping(callMappings, local[r].callID,
                            local[r].person.Name, local[r].phoneNumber,
                            payload[r].Title, payload[r].PersonID, now)
    /\ EndAccess(r)
    /\ local' = [local EXCEPT ![r].stores = @ + 1]
    /\ IF local[r].callErr # ""
       THEN /\ Sent(r, CreateCallReq(local[r].phoneNumber, local[r].person.Name,
                                     payload[r].Title))
            /\ pc' = [pc EXCEPT ![r] = "lead_create_call"]
       ELSE /\ Sent(r, ActivityReq(payload[r].PersonID, 0,
                                   "AI Call Initiated - Lead"))
            /\ pc' = [pc EXCEPT ![r] = "lead_activity"]
    /\ UNCHANGED <<config, now, crashed, received, ops, kind, payload, inp, resp>>

\* storeCallMapping completes and the tracking activity is requested.  A
\* write that overlapped another goroutine's write may not have taken effect.
LeadStoreCallMapping(r) ==
    /\ ~crashed
    /\ pc[r] = "lead_storing"
    /\ LET stored == storeCallMapping(callMappings, local[r].callID,
                        local[r].person.Name, local[r].phoneNumber,
                        payload[r].Title, payload[r].PersonID, now)
       IN  \/ callMappings' = stored
           \/ racedW[r] /\ callMappings' = callMappings
    /\ EndAccess(r)
    /\ local' = [local EXCEPT ![r].stores = @ + 1]
    /\ Sent(r, ActivityReq(payload[r].PersonID, 0, "AI Call Initiated - Lead"))
    /\ pc' = [pc EXCEPT ![r] = "lead_activity"]
    /\ UNCHANGED <<config, now, crashed, received, ops, kind, payload, inp, resp>>

\* what ProcessPipedriveLead distinguishes in the answer to POST /activities
LeadActivityReplies ==
    { TransportError, PipedriveReply(FALSE, 201, TRUE, TRUE, [ID |-> 7]) }

\* POST /activities answers or fails: either way the lead is processed
LeadActivityReturns(r) ==
    /\ ~crashed
    /\ pc[r] = "lead_activity"
    /\ \E reply \in LeadActivityReplies : Got(r, reply)
    /\ Finish(r, LeadOK(payload[r]))
    /\ UNCHANGED <<shared, kind, payload, local, out, access, racedW>>

----------------------------------------------------------------------------
(* POST /webhook/retell/analyzed: RetellCallAnalyzedHandler and            *)
(* ProcessRetellCallAnalyzed                                               *)

AnalyzedOK(p) ==
    WebhookResponse(200, TRUE, "Retell call_analyzed webhook processed successfully",
                    [call_id |-> p.CallID])

AnalyzedFailed(err) ==
    WebhookResponse(500, FALSE, <<"Failed to process call analyzed: ", err>>,
                    NoData)

AnalyzedRejected ==
    WebhookResponse(400, FALSE, "Missing required field: call.call_id", NoData)

\* The handler binds and validates the payload and enters
\* ProcessRetellCallAnalyzed, which runs up to its entry into getCallMapping.
RetellCallAnalyzedHandler(r) ==
    /\ Accepts(r, "analyzed", MaxAnalyzed)
    /\ \E p \in AnalyzedPayloads \cup {InvalidJSON} :
        /\ payload' = [payload EXCEPT ![r] = p]
        /\ IF p = InvalidJSON
           THEN Finish(r, BadJSON) /\ UNCHANGED <<access, racedW, local>>
           ELSE IF p.CallID = EmptyStr
           THEN Finish(r, AnalyzedRejected) /\ UNCHANGED <<access, racedW, local>>
           ELSE IF HasPipedriveConfig
           THEN /\ BeginAccess(r, "read")
                /\ pc' = [pc EXCEPT ![r] = "an_get_mapping"]
                /\ local' = [local EXCEPT
                                ![r].recorded = p.CallID \in DOMAIN callMappings,
                                ![r].invoked = TRUE]
                /\ resp' = resp
           ELSE /\ Finish(r, AnalyzedOK(p))
                /\ local' = [local EXCEPT ![r].invoked = TRUE]
                /\ UNCHANGED <<access, racedW>>
    /\ UNCHANGED <<config, callMappings, now, crashed, ops, out, inp>>

\* What the lookup of r can return: the map's content, or, when the read
\* overlapped another goroutine's write, possibly a miss.
LookupResults(r) ==
    {getCallMapping(callMappings, payload[r].CallID)}
    \cup (IF racedW[r] THEN {getCallMapping(<<>>, payload[r].CallID)} ELSE {})

\* A lookup that takes the mapping out of the store once it is read: not what
\* getCallMapping does.
AnalyzedGetCallMapping_Consumes(r) ==
    /\ ~crashed
    /\ pc[r] = "an_get_mapping"
    /\ LET res == getCallMapping(callMappings, payload[r].CallID)
       IN  IF res.exists
           THEN /\ local' = [local EXCEPT ![r].exists = TRUE,
                                          ![r].callMapping = res.mapping,
                                          ![r].personID = res.mapping.PersonID]
                /\ callMappings' = [k \in DOMAIN callMappings \ {payload[r].CallID}
                                      |-> callMappings[k]]
                /\ Sent(r, UpdatePersonReq(res.mapping.PersonID))
                /\ pc' = [pc EXCEPT ![r] = "an_update"]
           ELSE /\ local' = [local EXCEPT ![r].exists = FALSE]
                /\ callMappings' = callMappings
                /\ Sent(r, SearchPersonReq("Unknown"))
                /\ pc' = [pc EXCEPT ![r] = "an_search"]
    /\ EndAccess(r)
    /\ UNCHANGED <<config, now, crashed, received, ops, kind, payload, inp, resp>>

\* getCallMapping returns; the first request of the chosen path is sent
AnalyzedGetCallMapping(r) ==
    /\ ~crashed
    /\ pc[r] = "an_get_mapping"
    /\ \E res \in LookupResults(r) :
        /\ IF res.exists
           THEN /\ local' = [local EXCEPT ![r].exists = TRUE,
                                          ![r].callMapping = res.mapping,
                                          ![r].personID = res.mapping.PersonID]
                /\ Sent(r, UpdatePersonReq(res.mapping.PersonID))
                /\ pc' = [pc EXCEPT ![r] = "an_update"]
           ELSE /\ local' = [local EXCEPT ![r].exists = FALSE]
                /\ Sent(r, SearchPersonReq("Unknown"))
                /\ pc' = [pc EXCEPT ![r] = "an_search"]
    /\ EndAccess(r)
    /\ UNCHANGED <<shared, kind, payload, inp, resp>>

\* FindOrCreateContactByPhone: GET /persons/search answers
AnalyzedSearchReturns(r) ==
    /\ ~crashed
    /\ pc[r] = "an_search"
    /\ \E reply \in SearchReplies :
        LET res == SearchContactByPhone(reply)
        IN  /\ Got(r, reply)
            /\ CASE res.outcome = "error" ->
                    /\ Finish(r, AnalyzedFailed(<<"failed to find/create contact: ",
                                                  res.err>>))
                    /\ UNCHANGED <<local, out>>
                 [] res.outcome = "found" ->
                    /\ local' = [local EXCEPT ![r].personID = res.id]
                    /\ Sent(r, UpdatePersonReq(res.id))
                    /\ pc' = [pc EXCEPT ![r] = "an_update"]
                    /\ resp' = resp
                 [] res.outcome = "create" ->
                    /\ Sent(r, CreatePersonReq("Unknown Caller", "Unknown"))
                    /\ pc' = [pc EXCEPT ![r] = "an_create"]
                    /\ UNCHANGED <<local, resp>>
    /\ UNCHANGED <<shared, kind, payload, access, racedW>>

\* FindOrCreateContactByPhone: POST /persons answers
AnalyzedCreateReturns(r) ==
    /\ ~crashed
    /\ pc[r] = "an_create"
    /\ \E reply \in CreatePersonReplies :
        LET res == CreateContactByPhone(reply)
        IN  /\ Got(r, reply)
            /\ IF res.err # ""
               THEN /\ Finish(r, AnalyzedFailed(<<"failed to find/create contact: ",
                                                  res.err>>))
                    /\ UNCHANGED <<local, out>>
               ELSE /\ local' = [local EXCEPT ![r].personID = res.id]
                    /\ Sent(r, UpdatePersonReq(res.id))
                    /\ pc' = [pc EXCEPT ![r] = "an_update"]
                    /\ resp' = resp
    /\ UNCHANGED <<shared, kind, payload, access, racedW>>

\* PUT /persons/{id} answers: a failed update is logged and the activity is
\* requested all the same, on either path.
AnalyzedUpdateReturns(r) ==
    /\ ~crashed
    /\ pc[r] = "an_update"
    /\ \E reply \in UpdateReplies : Got(r, reply)
    /\ Sent(r, ActivityReq(local[r].personID, 1, "AI Call Analyzed"))
    /\ pc' = [pc EXCEPT ![r] = IF local[r].exists THEN "an_activity"
                                ELSE "an_fallback_activity"]
    /\ UNCHANGED <<shared, kind, payload, local, resp, access, racedW>>

\* Fallback path: POST /activities answers; only a transport failure is an
\* error, the body is not read.
AnalyzedFallbackActivityReturns(r) ==
    /\ ~crashed
    /\ pc[r] = "an_fallback_activity"
    /\ \E reply \in ActivityReplies :
        /\ Got(r, reply)
        /\ IF reply.err
           THEN Finish(r, AnalyzedFailed(<<"failed to create call activity">>))
           ELSE Finish(r, AnalyzedOK(payload[r]))
    /\ UNCHANGED <<shared, kind, payload, local, out, access, racedW>>

\* The error ProcessRetellCallAnalyzed returns for the activity reply on the
\* path of a found mapping; "" for none, "panic" for the nil dereference of
\* activityResult.Data
AnalyzedActivityResult(reply) ==
    IF reply.err THEN "failed to create call activity"
    ELSE IF ~reply.json THEN "failed to decode activity response"
    ELSE IF ~reply.success THEN "failed to create call activity in Pipedrive"
    ELSE IF reply.data = Null THEN "panic"
    ELSE ""

\* Path of a found mapping: POST /activities answers
AnalyzedActivityReturns(r) ==
    /\ ~crashed
    /\ pc[r] = "an_activity"
    /\ \E reply \in ActivityReplies :
        LET err == AnalyzedActivityResult(reply)
        IN  /\ Got(r, reply)
            /\ IF err = "panic"
               THEN Finish(r, RecoveredPanic) /\ out' = out
               ELSE IF err # ""
               THEN Finish(r, AnalyzedFailed(<<err>>)) /\ out' = out
               ELSE /\ Sent(r, NoteReq(local[r].personID))
                    /\ pc' = [pc EXCEPT ![r] = "an_note"]
                    /\ resp' = resp
    /\ UNCHANGED <<shared, kind, payload, local, access, racedW>>

\* A processor that fails the event when the note cannot be added: not what
\* ProcessRetellCallAnalyzed does.
AnalyzedNoteReturns_FailsEvent(r) ==
    /\ ~crashed
    /\ pc[r] = "an_note"
    /\ \E reply \in NoteReplies :
        /\ Got(r, reply)
        /\ IF reply.err
           THEN Finish(r, AnalyzedFailed(<<"failed to create transcript note">>))
           ELSE Finish(r, AnalyzedOK(payload[r]))
    /\ UNCHANGED <<shared, kind, payload, local, out, access, racedW>>

\* POST /notes answers or fails: either way the callback is processed
AnalyzedNoteReturns(r) ==
    /\ ~crashed
    /\ pc[r] = "an_note"
    /\ \E reply \in NoteReplies : Got(r, reply)
    /\ Finish(r, AnalyzedOK(payload[r]))
    /\ UNCHANGED <<shared, kind, payload, local, out, access, racedW>>

----------------------------------------------------------------------------
(* The environment and the runtime *)

\* The goroutine of a finished request ends; its slot serves a later request
Return(r) ==
    /\ ~crashed
    /\ pc[r] = "done"
    /\ pc' = [pc EXCEPT ![r] = "idle"]
    /\ kind' = [kind EXCEPT ![r] = "none"]
    /\ payload' = [payload EXCEPT ![r] = NoPayload]
    /\ local' = [local EXCEPT ![r] = ZeroLocal]
    /\ out' = [out EXCEPT ![r] = <<>>]
    /\ inp' = [inp EXCEPT ![r] = <<>>]
    /\ resp' = [resp EXCEPT ![r] = NoResponse]
    /\ UNCHANGED <<shared, access, racedW>>

\* A second passes
Tick ==
    /\ ~crashed
    /\ now < MaxTime
    /\ now' = now + 1
    /\ UNCHANGED <<config, callMappings, crashed, received, ops, perReq, mapAcc>>

\* The Go runtime notices a map access overlapping a write and ends the
\* process: "fatal error: concurrent map writes" / "concurrent map read and
\* map write".  The check is best effort, so the step is only possible.
ConcurrentMapFatal ==
    /\ ~crashed
    /\ \E r \in Slots : access[r] # "none" /\ racedW[r]
    /\ crashed' = TRUE
    /\ UNCHANGED <<config, callMappings, now, received, ops, perReq, mapAcc>>

Next ==
    \/ \E r \in Slots : PipedriveLeadWebhookHandler(r)
    \/ \E r \in Slots : LeadGetPersonReturns(r)
    \/ \E r \in Slots : LeadCreateCallReturns(r)
    \/ \E r \in Slots : LeadStoreCallMapping(r)
    \/ \E r \in Slots : LeadActivityReturns(r)
    \/ \E r \in Slots : RetellCallAnalyzedHandler(r)
    \/ \E r \in Slots : AnalyzedGetCallMapping(r)
    \/ \E r \in Slots : AnalyzedSearchReturns(r)
    \/ \E r \in Slots : AnalyzedCreateReturns(r)
    \/ \E r \in Slots : AnalyzedUpdateReturns(r)
    \/ \E r \in Slots : AnalyzedFallbackActivityReturns(r)
    \/ \E r \in Slots : AnalyzedActivityReturns(r)
    \/ \E r \in Slots : AnalyzedNoteReturns(r)
    \/ \E r \in Slots : Return(r)
    \/ Tick
    \/ ConcurrentMapFatal

Spec == Init /\ [][Next]_vars

TypeOK ==
    /\ crashed \in BOOLEAN
    /\ now \in 0..MaxTime
    /\ received \in [Endpoints -> 0..MaxLeads]
    /\ \A r \in Slots : access[r] \in {"none", "read", "write"}
    /\ \A r \in Slots : kind[r] \in Endpoints \cup {"retell", "cal", "none"}
    /\ \A r \in Slots : Len(inp[r]) <= Len(out[r])
    /\ \A k \in DOMAIN callMappings : callMappings[k].PersonID \in PersonIDs

----------------------------------------------------------------------------
(* The correlation store on its own: storeCallMapping and getCallMapping   *)
(* applied one after the other to the service's map, with every operation  *)
(* and its result logged in ops.                                           *)

FullConfig ==
    [PipedriveAPIKey |-> "key", RetellAPIKey |-> "key", RetellAssistantID |-> "key"]

\* keys ProcessPipedriveLead can store under: platform ids, the empty id of
\* a reply without call_id, and placeholders
StoreKeys ==
    RetellCallIDs \cup {EmptyStr} \cup { Str_failed \o FormatInt(t) : t \in 0..MaxTime }

StorePhones == { extractPhoneFromPerson([Phone |-> ph]) : ph \in PhoneLists \ {<<>>} }

InitStore == Init /\ config = FullConfig

\* p.storeCallMapping(callID, personName, phoneNumber, leadTitle, personID)
Record ==
    /\ Len(ops) < MaxOps
    /\ \E c \in StoreKeys, n \in PersonNames, ph \in StorePhones,
          t \in Titles, id \in PersonIDs :
        /\ callMappings' = storeCallMapping(callMappings, c, n, ph, t, id, now)
        /\ ops' = Append(ops, [op |-> "record", callID |-> c, personName |-> n,
                               phoneNumber |-> ph, leadTitle |-> t,
                               personID |-> id])
    /\ UNCHANGED <<config, now, crashed, received, perReq, mapAcc>>

\* p.getCallMapping(callID)
Resolve ==
    /\ Len(ops) < MaxOps
    /\ \E c \in StoreKeys :
        ops' = Append(ops, [op |-> "resolve", callID |-> c,
                            result |-> getCallMapping(callMappings, c)])
    /\ UNCHANGED <<config, callMappings, now, crashed, received, perReq, mapAcc>>

NextStore == Record \/ Resolve \/ Tick

SpecStore == InitStore /\ [][NextStore]_vars

----------------------------------------------------------------------------
(* Properties *)

Leads == { r \in Slots : kind[r] = "lead" }
Callbacks == { r \in Slots : kind[r] = "analyzed" }

\* the lookup of r returns in this step
LookupReturns(r) == pc[r] = "an_get_mapping" /\ pc'[r] # "an_get_mapping"

\* C1: when a mapping for call identifier c with person id P is in the store
\* before ProcessRetellCallAnalyzed looks c up, the lookup finds it: the next request
\* is the update of person P, not a contact search or creation, and the
\* activity that follows is created with person_id = P.
C1_CallbackUsesStoredPerson ==
    [][\A r \in Slots :
        /\ (LookupReturns(r) /\ local[r].recorded)
              => LET P == callMappings[payload[r].CallID].PersonID
                 IN  /\ pc'[r] = "an_update"
                     /\ local'[r].exists
                     /\ out'[r] = <<UpdatePersonReq(P)>>
        /\ (pc[r] = "an_update" /\ local[r].exists /\ pc'[r] # "an_update")
              => /\ out'[r] = <<UpdatePersonReq(local[r].callMapping.PersonID),
                                ActivityReq(local[r].callMapping.PersonID, 1,
                                            "AI Call Analyzed")>>
      ]_vars

\* a callback whose lookup has returned a miss
Missed(r) ==
    /\ r \in Callbacks
    /\ pc[r] \notin {"idle", "an_get_mapping"}
    /\ HasPipedriveConfig
    /\ payload[r] # InvalidJSON
    /\ payload[r].CallID # EmptyStr
    /\ ~local[r].exists

\* C2 as stated: a callback for a call_id without stored mapping never ends
\* in an error; it is answered 200.
C2_MissIsAnswered200 ==
    \A r \in Slots : (Missed(r) /\ pc[r] = "done") => resp[r].status = 200

\* From the raw replies: the search for the generic contact failed
SearchFailed(reply) == reply.err \/ ~reply.json
\* ... it found a contact
SearchFound(reply) == ~SearchFailed(reply) /\ reply.success /\ Len(reply.data) > 0
\* ... the creation of the generic contact failed
CreationFailed(reply) ==
    reply.err \/ ~reply.json \/ ~reply.success \/ reply.data = Null

\* The fallback path of r has run into one of the failures it reports
FallbackFailure(r) ==
    LET n == Len(inp[r])
    IN  \/ n >= 1 /\ SearchFailed(inp[r][1])
        \/ n >= 2 /\ out[r][2].op = "POST /persons" /\ CreationFailed(inp[r][2])
        \/ n >= 1 /\ out[r][n].op = "POST /activities" /\ inp[r][n].err

\* The contact the fallback path attaches the activity to
FallbackContact(r) ==
    IF SearchFound(inp[r][1]) THEN inp[r][1].data[1].ID ELSE inp[r][2].data.ID

\* C2 (amended): a callback for a call_id without stored mapping takes the
\* fallback path: it first searches the generic contact "Unknown", creates
\* one only when none is found, and requests a done activity for that contact.
\* It is answered 200, except when the search, the creation or the activity
\* request fails: then, and only then, it is answered 500.
C2_MissTakesFallback ==
    \A r \in Slots :
        Missed(r) =>
            /\ out[r][1] = SearchPersonReq("Unknown")
            /\ \A i \in 1..Len(out[r]) :
                  /\ out[r][i].op = "POST /persons"
                        => i = 2 /\ ~SearchFound(inp[r][1])
                  /\ out[r][i].op = "POST /activities"
                        => /\ i = Len(out[r])
                           /\ ~SearchFailed(inp[r][1])
                           /\ out[r][i] = ActivityReq(FallbackContact(r), 1,
                                                      "AI Call Analyzed")
            /\ pc[r] = "done" =>
                  /\ resp[r].status = IF FallbackFailure(r) THEN 500 ELSE 200
                  /\ resp[r].status = 200 =>
                        /\ out[r][Len(out[r])].op = "POST /activities"
                        /\ resp[r] = AnalyzedOK(payload[r])

\* a miss answered 200 after the generic contact had to be created
C2_Witness ==
    \E r \in Slots :
        /\ Missed(r) /\ pc[r] = "done" /\ resp[r].status = 200
        /\ Len(out[r]) = 4 /\ out[r][2].op = "POST /persons"

\* a lead whose call-creation request failed and that is past the record step
FailedCallStored(r) ==
    /\ r \in Leads
    /\ pc[r] \in {"lead_activity", "done"}
    /\ Len(inp[r]) >= 2
    /\ local[r].callErr # ""

\* C3: when the call-creation request fails, ProcessPipedriveLead still
\* stores one record, under a non-empty identifier beginning with "failed-",
\* requests the activity and returns success.
C3_FailedCallStillRecorded ==
    \A r \in Slots :
        FailedCallStored(r) =>
            /\ HasPrefix(local[r].callID, Str_failed)
            /\ local[r].callID # EmptyStr
            /\ local[r].stores = 1
            /\ local[r].callID \in DOMAIN callMappings
            /\ out[r][3] = ActivityReq(payload[r].PersonID, 0,
                                       "AI Call Initiated - Lead")
            /\ pc[r] = "done" => resp[r] = LeadOK(payload[r])

\* C4: the record step never overwrites an entry that is already present.
C4_RecordNeverOverwrites ==
    [][\A r \in Slots :
        (pc[r] = "lead_storing" /\ pc'[r] # "lead_storing")
            => local[r].callID \notin DOMAIN callMappings]_vars

\* C5: no write of the map overlaps another goroutine's write or read.
C5_MutualExclusion ==
    \A r, q \in Slots :
        (r # q /\ access[r] = "write") => access[q] = "none"

\* the last record of c before operation j, 0 for none
LastRecord(c, j) ==
    LET earlier == { i \in 1..(j - 1) :
                       ops[i].op = "record" /\ ops[i].callID = c }
    IN  IF earlier = {} THEN 0
        ELSE CHOOSE i \in earlier : \A k \in earlier : k <= i

\* C6: a resolve of c that follows a record of c, with no other record of c
\* in between, returns found = true and the four fields of that record.
C6_RecordResolveRoundTrip ==
    \A j \in 1..Len(ops) :
        (ops[j].op = "resolve" /\ LastRecord(ops[j].callID, j) # 0) =>
            LET rec == ops[LastRecord(ops[j].callID, j)]
                got == ops[j].result
            IN  /\ got.exists = TRUE
                /\ got.mapping.PersonName = rec.personName
                /\ got.mapping.PhoneNumber = rec.phoneNumber
                /\ got.mapping.LeadTitle = rec.leadTitle
                /\ got.mapping.PersonID = rec.personID

\* a record of c, a record of another identifier, then a resolve of c
C6_Witness ==
    \E i, k, j \in 1..Len(ops) :
        /\ i < k /\ k < j
        /\ ops[i].op = "record" /\ ops[k].op = "record" /\ ops[j].op = "resolve"
        /\ ops[j].callID = ops[i].callID /\ ops[k].callID # ops[i].callID
        /\ ops[k].personID # ops[i].personID
        /\ ops[j].result.exists

\* C7: a resolve of an identifier that was never recorded returns
\* found = false and the zero record, whatever the store holds.
C7_ResolveUnknown ==
    \A j \in 1..Len(ops) :
        (ops[j].op = "resolve" /\ LastRecord(ops[j].callID, j) = 0) =>
            /\ ops[j].result.exists = FALSE
            /\ ops[j].result.mapping = ZeroCallMapping

\* an unrecorded identifier resolved on the empty store and again on a store
\* that holds other identifiers
C7_Witness ==
    \E i, k, j \in 1..Len(ops) :
        /\ i < k /\ k < j
        /\ ops[i].op = "resolve" /\ ops[k].op = "record" /\ ops[j].op = "resolve"
        /\ ops[i].callID = ops[j].callID /\ ops[k].callID # ops[j].callID
        /\ ~ops[j].result.exists
        /\ callMappings # <<>>

\* the handler of r has taken a well-formed lead payload in this step
LeadEnters(r) ==
    /\ pc[r] = "idle" /\ kind'[r] = "lead"
    /\ payload'[r] # InvalidJSON
    /\ payload'[r].ID # "" /\ payload'[r].PersonID # 0

\* C8: a lead event whose action is not "create" is answered with success;
\* no person is fetched, no call and no activity requested, and the store is
\* neither accessed nor changed.
C8_OnlyCreateIsProcessed ==
    [][\A r \in Slots :
        (LeadEnters(r) /\ payload'[r].Action # "create") =>
            /\ pc'[r] = "done"
            /\ resp'[r] = LeadOK(payload'[r])
            /\ resp'[r].status = 200 /\ resp'[r].success
            /\ out'[r] = <<>>
            /\ access'[r] = "none" /\ local'[r].stores = 0
            /\ callMappings' = callMappings]_vars

C8_Witness ==
    \E r \in Leads :
        /\ pc[r] = "done" /\ payload[r] # InvalidJSON
        /\ payload[r].ID # "" /\ payload[r].PersonID # 0
        /\ payload[r].Action = "updated"
        /\ LeadIntegrationConfigured
        /\ resp[r].status = 200 /\ out[r] = <<>>

\* the person fetch of r is answered in this step
PersonFetched(r) ==
    pc[r] = "lead_get_person" /\ Len(inp[r]) = 0 /\ Len(inp'[r]) = 1

\* the reply carries a person
PersonReturned(reply) ==
    /\ ~reply.err /\ reply.status = 200 /\ reply.json /\ reply.success
    /\ reply.data # Null

\* C9: when the fetched person has an empty phone list, no call and no
\* activity is requested, the store is neither accessed nor changed, and the
\* webhook is answered 200 with success = true.
C9_NoPhoneNoCall ==
    [][\A r \in Slots :
        (/\ PersonFetched(r)
         /\ PersonReturned(inp'[r][1])
         /\ Len(inp'[r][1].data.Phone) = 0) =>
            /\ pc'[r] = "done"
            /\ resp'[r] = LeadOK(payload[r])
            /\ resp'[r].status = 200 /\ resp'[r].success
            /\ out'[r] = <<GetPersonReq(payload[r].PersonID)>>
            /\ access'[r] = "none" /\ local'[r].stores = 0
            /\ callMappings' = callMappings]_vars

C9_Witness ==
    \E r \in Leads :
        /\ pc[r] = "done" /\ Len(inp[r]) = 1
        /\ PersonReturned(inp[r][1])
        /\ inp[r][1].data.Phone = <<>>
        /\ resp[r].status = 200 /\ Len(out[r]) = 1

\* the person fetch failed: transport error, non-200 status, or a body that
\* reports no success
PersonFetchFailed(reply) ==
    reply.err \/ reply.status # 200 \/ (reply.json /\ ~reply.success)

\* the error the failure is reported with
PersonFetchError(reply) ==
    IF reply.err THEN "failed to make request"
    ELSE IF reply.status # 200 THEN "failed to get person: HTTP"
    ELSE "failed to get person"

\* C10: when the person fetch fails, the event ends there: the handler
\* answers 500 with the error, no call and no activity is requested, and the
\* store is neither accessed nor changed.
C10_PersonFetchFailureIsTerminal ==
    [][\A r \in Slots :
        (PersonFetched(r) /\ PersonFetchFailed(inp'[r][1])) =>
            /\ pc'[r] = "done"
            /\ resp'[r].status = 500
            /\ resp'[r] = LeadFailed(<<"failed to get person details: ",
                                       PersonFetchError(inp'[r][1])>>)
            /\ out'[r] = <<GetPersonReq(payload[r].PersonID)>>
            /\ access'[r] = "none" /\ local'[r].stores = 0
            /\ callMappings' = callMappings]_vars

\* each kind of failure has been answered 500
C10_Witness ==
    \E r \in Leads :
        /\ pc[r] = "done" /\ Len(inp[r]) = 1 /\ Len(out[r]) = 1
        /\ PersonFetchFailed(inp[r][1])
        /\ ~inp[r][1].err /\ inp[r][1].status = 200
        /\ resp[r].status = 500

\* ------------------------------------------------------------------------
\* Phone normalisation on its own: extractPhoneFromPerson applied to persons
\* whose first phone entry is any short string over the characters below.

\* longest phone value tried
MaxPhoneLen == 3

PhoneChars == {"+", "1", "5", " ", "-", "(", ")"}

PhoneInputs == UNION {[1..n -> PhoneChars] : n \in 1..MaxPhoneLen}

InitPhone ==
    /\ Init
    /\ config = FullConfig

\* one call of extractPhoneFromPerson, its argument and result logged in ops
ExtractPhone ==
    /\ ops = <<>>
    /\ \E ph \in PhoneInputs :
         ops' = <<[op |-> "extract", phone |-> ph,
                   result |-> extractPhoneFromPerson(
                                  [Phone |-> <<[Value |-> ph]>>])]>>
    /\ UNCHANGED <<config, callMappings, now, crashed, received, perReq,
                   mapAcc>>

NextPhone == ExtractPhone

SpecPhone == InitPhone /\ [][NextPhone]_vars

\* the separators removed, as the normalisation is described
Stripped(ph) == SelectSeq(ph, LAMBDA c : c \notin {" ", "-", "(", ")"})

\* the normalised form the description promises
ExpectedPhone(ph) ==
    LET s == Stripped(ph)
    IN  IF HasPrefix(s, Str_plus) THEN s
        ELSE IF HasPrefix(s, Str_one) THEN Str_plus \o s
        ELSE Str_plus_one \o s

\* C11: normalisation strips the separators; a number with no leading + and
\* no leading 1 gets +1 prefixed, one with a leading 1 and no + gets only +
\* prefixed, one starting with + is unchanged.
C11_NormalizedPhone ==
    \A i \in 1..Len(ops) :
        ops[i].op = "extract" => ops[i].result = ExpectedPhone(ops[i].phone)

----------------------------------------------------------------------------
(* The lead-created event from end to end                                  *)

\* the record step of a lead event completes
LeadRecorded(r) == pc[r] = "lead_storing" /\ pc'[r] = "lead_activity"

\* the requests a lead event with a reachable person has sent once its
\* activity is requested
LeadRequests(r) ==
    << GetPersonReq(payload[r].PersonID),
       CreateCallReq(ExpectedPhone(local[r].person.Phone[1].Value),
                     local[r].person.Name, payload[r].Title),
       ActivityReq(payload[r].PersonID, 0, "AI Call Initiated - Lead") >>

\* C12: a lead-created event whose person is fetched and has a phone sends
\* one call request to the normalised phone, then stores one correlation
\* entry, then requests one pending activity, and is answered 200 with the
\* lead and person echoed.
C12_LeadEndToEnd ==
    [][\A r \in Slots :
        /\ LeadRecorded(r) =>
              /\ out'[r] = LeadRequests(r)
              /\ local'[r].stores = 1
              /\ local[r].callID \in DOMAIN callMappings'
              /\ callMappings'[local[r].callID].PersonID = payload[r].PersonID
        /\ (pc[r] = "lead_activity" /\ pc'[r] = "done") =>
              /\ out'[r] = LeadRequests(r)
              /\ resp'[r] = LeadOK(payload[r])]_vars

----------------------------------------------------------------------------
(* Secondary steps                                                         *)

\* the reply r has just received
LastReply(r) == inp'[r][Len(inp'[r])]

\* r receives the reply it was waiting for at position p
Answered(r, p) == pc[r] = p /\ pc'[r] # p /\ Len(inp'[r]) = Len(inp[r]) + 1

\* C13: the failure of a secondary step is swallowed.  A failed creation of
\* the lead's tracking activity and a failed transcript note still end the
\* event with the 200 answer; a failed update of the person's custom fields
\* is followed by the activity request, the next step of the processor.
C13_SecondaryFailuresSwallowed ==
    [][\A r \in Slots :
        /\ (Answered(r, "lead_activity") /\ LastReply(r).err) =>
              /\ pc'[r] = "done"
              /\ resp'[r] = LeadOK(payload[r])
        /\ (Answered(r, "an_note") /\ LastReply(r).err) =>
              /\ pc'[r] = "done"
              /\ resp'[r] = AnalyzedOK(payload[r])
        /\ (Answered(r, "an_update")
              /\ UpdatePersonWithCallData(LastReply(r)) # "") =>
              /\ pc'[r] \in {"an_activity", "an_fallback_activity"}
              /\ out'[r] = Append(out[r], ActivityReq(local[r].personID, 1,
                                                      "AI Call Analyzed"))
              /\ resp'[r] = resp[r]]_vars

\* a callback whose update and note both failed has been answered 200, next
\* to a lead whose tracking activity failed and was answered 200
C13_Witness ==
    \E r \in Callbacks, q \in Leads :
        /\ pc[r] = "done" /\ Len(inp[r]) = 3
        /\ UpdatePersonWithCallData(inp[r][1]) # ""
        /\ out[r][3] = NoteReq(local[r].personID) /\ inp[r][3].err
        /\ resp[r] = AnalyzedOK(payload[r])
        /\ pc[q] = "done" /\ Len(inp[q]) = 3 /\ inp[q][3].err
        /\ resp[q] = LeadOK(payload[q])

----------------------------------------------------------------------------
(* POST /webhook/retell: RetellWebhookHandler and ProcessRetellCall.  The  *)
(* processor touches nothing but its own request, so the handler is one    *)
(* step: the replies of the CRM are chosen with it.                        *)

\* The router hands a call-lifecycle or appointment webhook to a goroutine.
\* These requests leave nothing behind in the service, so they are not
\* counted: any number of them may arrive.
AcceptsEvent(r, endpoint) ==
    /\ ~crashed
    /\ pc[r] = "idle"
    /\ \A q \in Slots : q < r => pc[q] # "idle"
    /\ kind' = [kind EXCEPT ![r] = endpoint]
    /\ received' = received

\* time.Parse(time.RFC3339, ts) succeeds
ValidRFC3339(ts) == ts \in {"2024-01-15T10:30:00Z", "2024-01-15T11:00:00Z"}

RetellEvents == {"call_started", "call_ended", "call.completed", "call.hangup",
                 "call.optout", "call.transferred"}

RetellPayload(callID, phone, ts, event) ==
    [CallID |-> callID, ContactPhone |-> phone, Timestamp |-> ts,
     Event |-> event]

RetellPayloads ==
    { RetellPayload("", "+15550100", "2024-01-15T10:30:00Z", "call_started"),
      RetellPayload("call-9", "", "2024-01-15T10:30:00Z", "call_started"),
      RetellPayload("call-9", "+15550100", "yesterday", "call_started") }
    \cup { RetellPayload("call-9", "+15550100", "2024-01-15T10:30:00Z", e) :
             e \in RetellEvents }

RetellOK(p) ==
    WebhookResponse(200, TRUE, "Retell webhook processed successfully",
                    [call_id |-> p.CallID, contact_phone |-> p.ContactPhone,
                     event |-> p.Event])

RetellFailed(err) ==
    WebhookResponse(500, FALSE, <<"Failed to process call: ", err>>, NoData)

RetellRejected ==
    WebhookResponse(400, FALSE,
                    "Missing required fields: call_id and contact_phone", NoData)

RetellPayloadMissingFields(p) == p.CallID = "" \/ p.ContactPhone = ""

\* What a processor did and returned: the requests it sent, the replies it
\* got, its error (<<>> for nil) and whether it panicked.
Run(requests, replies, err, panic) ==
    [out |-> requests, inp |-> replies, err |-> err, panic |-> panic]

NoRun == Run(<<>>, <<>>, <<>>, FALSE)

\* one run after the other; a failed run is not continued
Then(a, b) ==
    IF a.err # <<>> \/ a.panic THEN a
    ELSE Run(a.out \o b.out, a.inp \o b.inp, b.err, b.panic)

\* The replies of the CRM tried with a lifecycle event: the search fails,
\* finds nobody or finds the contact; the creation fails or succeeds; the
\* update fails or succeeds.
LifecycleSearchReplies ==
    { s \in SearchReplies : s.err \/ s.json }

LifecycleCreateReplies ==
    { c \in CreatePersonReplies : c.err \/ (c.success /\ c.data # Null) }

LifecycleUpdateReplies == { u \in UpdateReplies : u.err \/ u.success }

\* FindOrCreateContactByPhone: its runs, each with the contact's id
ContactRuns(phone) ==
    UNION {
      LET res == SearchContactByPhone(s)
          search == <<SearchPersonReq(phone)>>
      IN  CASE res.outcome = "error" ->
                 {[run |-> Run(search, <<s>>, <<res.err>>, FALSE), id |-> 0]}
            [] res.outcome = "found" ->
                 {[run |-> Run(search, <<s>>, <<>>, FALSE), id |-> res.id]}
            [] res.outcome = "create" ->
                 { LET made == CreateContactByPhone(c)
                   IN  [run |-> Run(Append(search,
                                       CreatePersonReq("Unknown Caller", phone)),
                                    <<s, c>>,
                                    IF made.err = "" THEN <<>> ELSE <<made.err>>,
                                    FALSE),
                        id |-> made.id] : c \in LifecycleCreateReplies }
      : s \in LifecycleSearchReplies }

\* A call-started activity that is written as completed: not what
\* handleCallStarted does.
handleCallStarted_Done(personID) ==
    { Run(<<ActivityReq(personID, 1, "AI Call Started")>>, <<a>>,
          IF a.err THEN <<"failed to create activity">> ELSE <<>>, FALSE) :
        a \in LeadActivityReplies }

\* handleCallStarted and handleCallEnded: the activity is requested and its
\* failure only logged
handleCallStarted(personID) ==
    { Run(<<ActivityReq(personID, 0, "AI Call Started")>>, <<a>>, <<>>, FALSE) :
        a \in LeadActivityReplies }

handleCallEnded(personID) ==
    { Run(<<ActivityReq(personID, 1, "AI Call Ended")>>, <<a>>, <<>>, FALSE) :
        a \in LeadActivityReplies }

\* UpdatePersonWithCallData as the event handlers call it: failure logged
UpdateRuns(personID) ==
    { Run(<<UpdatePersonReq(personID)>>, <<u>>, <<>>, FALSE) :
        u \in LifecycleUpdateReplies }

\* handleCallCompleted: the activity reply is decoded and checked
handleCallCompleted(personID) ==
    { LET err == AnalyzedActivityResult(a)
      IN  Then(u, Run(<<ActivityReq(personID, 1, "AI Call Completed")>>, <<a>>,
                      IF err \in {"", "panic"} THEN <<>> ELSE <<err>>,
                      err = "panic")) :
        u \in UpdateRuns(personID), a \in ActivityReplies }

\* the error handleCallHangup returns for the activity reply
HangupActivityResult(reply) ==
    IF reply.err THEN "failed to create hangup activity"
    ELSE IF ~reply.json THEN "failed to decode hangup response"
    ELSE IF reply.success /\ reply.data = Null THEN "panic"
    ELSE ""

handleCallHangup(personID) ==
    { LET err == HangupActivityResult(a)
      IN  Then(u, Run(<<ActivityReq(personID, 1, "Customer Hung Up")>>, <<a>>,
                      IF err \in {"", "panic"} THEN <<>> ELSE <<err>>,
                      err = "panic")) :
        u \in UpdateRuns(personID), a \in ActivityReplies }

LabelReq(personID) ==
    [op |-> "PUT /persons/{id}", person_id |-> personID,
     label |-> "Do Not Contact"]

\* An opt-out that only writes the activity: not what handleCallOptout does.
handleCallOptout_NoLabel(personID) ==
    { Then(u, Run(<<ActivityReq(personID, 1, "Customer Opted Out")>>, <<a>>,
                  IF a.err THEN <<"failed to create optout activity">> ELSE <<>>,
                  FALSE)) :
        u \in UpdateRuns(personID), a \in LeadActivityReplies }

\* handleCallOptout: the label, then the activity; transport failures of
\* either are returned
handleCallOptout(personID) ==
    { Then(u, Then(Run(<<LabelReq(personID)>>, <<l>>,
                       IF l.err THEN <<"failed to mark as DNC">> ELSE <<>>,
                       FALSE),
                   Run(<<ActivityReq(personID, 1, "Customer Opted Out")>>, <<a>>,
                       IF a.err THEN <<"failed to create optout activity">>
                       ELSE <<>>,
                       FALSE))) :
        u \in UpdateRuns(personID), l \in LeadActivityReplies,
        a \in LeadActivityReplies }

\* the switch on payload.Event
HandleEvent(event, personID) ==
    CASE event = "call_started" -> handleCallStarted(personID)
      [] event = "call_ended" -> handleCallEnded(personID)
      [] event = "call.completed" -> handleCallCompleted(personID)
      [] event = "call.hangup" -> handleCallHangup(personID)
      [] event = "call.optout" -> handleCallOptout(personID)
      [] OTHER -> {NoRun}

\* ProcessRetellCall: every run it can make for a payload
ProcessRetellCall(p) ==
    IF ~HasPipedriveConfig THEN {NoRun}
    ELSE IF ~ValidRFC3339(p.Timestamp)
    THEN {Run(<<>>, <<>>, <<"invalid timestamp format">>, FALSE)}
    ELSE UNION {
           IF c.run.err # <<>>
           THEN {Run(c.run.out, c.run.inp,
                     <<"failed to find/create contact: ">> \o c.run.err, FALSE)}
           ELSE { Then(c.run, h) : h \in HandleEvent(p.Event, c.id) }
           : c \in ContactRuns(p.ContactPhone) }

\* the handler's answer to what the processor returned
Answer(run, failed, ok) ==
    IF run.panic THEN RecoveredPanic
    ELSE IF run.err # <<>> THEN failed
    ELSE ok

\* The handler serving one of the given payloads: it binds and validates the
\* payload, runs ProcessRetellCall and answers.
RetellWebhook(r, payloads) ==
    /\ AcceptsEvent(r, "retell")
    /\ \E p \in payloads :
        /\ payload' = [payload EXCEPT ![r] = p]
        /\ IF p = InvalidJSON
           THEN Finish(r, BadJSON) /\ UNCHANGED <<out, inp, local>>
           ELSE IF RetellPayloadMissingFields(p)
           THEN Finish(r, RetellRejected) /\ UNCHANGED <<out, inp, local>>
           ELSE \E run \in ProcessRetellCall(p) :
                  /\ local' = [local EXCEPT ![r].invoked = TRUE]
                  /\ out' = [out EXCEPT ![r] = run.out]
                  /\ inp' = [inp EXCEPT ![r] = run.inp]
                  /\ Finish(r, Answer(run, RetellFailed(run.err), RetellOK(p)))
    /\ UNCHANGED <<config, callMappings, now, crashed, ops, access, racedW>>

\* every body a request to the endpoint can carry
RetellRequests == RetellPayloads \cup {InvalidJSON}

RetellWebhookHandler(r) == RetellWebhook(r, RetellRequests)

----------------------------------------------------------------------------
(* POST /webhook/cal: CalWebhookHandler and ProcessCalAppointment, one     *)
(* step as well                                                            *)

Attendee(email, name) == [Email |-> email, Name |-> name]

CalPayload(startTime, endTime, location, attendees) ==
    [TriggerEvent |-> "BOOKING_CREATED", ID |-> 11, Title |-> "Intro call",
     StartTime |-> startTime, EndTime |-> endTime, Location |-> location,
     Attendees |-> attendees]

CalPayloads ==
    LET start == "2024-01-15T10:30:00Z"
        end == "2024-01-15T11:00:00Z"
        jane == Attendee("jane@example.com", "Jane")
    IN  { CalPayload(start, end, "Zoom", <<>>),
          CalPayload("", end, "Zoom", <<jane>>),
          CalPayload(start, end, "", <<jane>>),
          CalPayload("tomorrow", end, "Zoom", <<jane>>),
          CalPayload(start, "", "Zoom", <<jane>>),
          CalPayload(start, end, "Zoom", <<jane>>) }

CalOK(p) ==
    WebhookResponse(200, TRUE, "Appointment processed successfully",
                    [trigger_event |-> p.TriggerEvent, booking_id |-> p.ID,
                     title |-> p.Title, start_time |-> p.StartTime,
                     end_time |-> p.EndTime, location |-> p.Location,
                     attendees |-> p.Attendees])

CalFailed(err) ==
    WebhookResponse(500, FALSE, <<"Failed to process appointment: ", err>>,
                    NoData)

CalRejectedAttendees ==
    WebhookResponse(400, FALSE, "Missing required field: attendees", NoData)

CalRejectedFields ==
    WebhookResponse(400, FALSE,
                    "Missing required fields: startTime and location", NoData)

\* A validation that lets a booking without attendees through: not what
\* CalWebhookHandler does.
CalPayloadNoAttendees_Never(p) == FALSE

\* the handler's two validations of the bound payload
CalPayloadNoAttendees(p) == Len(p.Attendees) = 0

CalPayloadMissingFields(p) == p.StartTime = "" \/ p.Location = ""

\* what the CRM answers to the requests of the appointment processor
EmailSearchReplies ==
    { TransportError,
      PipedriveReply(FALSE, 200, TRUE, TRUE, <<>>) }
    \cup { PipedriveReply(FALSE, 200, TRUE, TRUE,
                          <<PipedrivePerson(id, "Jane Doe", <<>>)>>) :
             id \in ContactIDs }

EmailCreateReplies ==
    { PipedriveReply(FALSE, 201, TRUE, TRUE, Null) }
    \cup { PipedriveReply(FALSE, 201, TRUE, TRUE,
                          PipedrivePerson(id, "Jane", <<>>)) :
             id \in ContactIDs }

PipedriveLead(personID) == [ID |-> "lead-1", PersonID |-> personID]

LeadSearchReplies ==
    { PipedriveReply(FALSE, 200, TRUE, TRUE, <<>>),
      PipedriveReply(FALSE, 200, TRUE, TRUE, <<PipedriveLead(1)>>) }

CalActivityReplies ==
    { TransportError,
      PipedriveReply(FALSE, 201, TRUE, TRUE, [ID |-> 7]) }

SearchByEmailReq(email) ==
    [op |-> "GET /persons/search", term |-> email, fields |-> "email"]
CreateByEmailReq(name, email) ==
    [op |-> "POST /persons", name |-> name, email |-> email]
LeadsReq(personID) == [op |-> "GET /leads", person_id |-> personID]

\* one run after the other, whatever the first one returned
Join(a, b) == Run(a.out \o b.out, a.inp \o b.inp, b.err, b.panic)

\* the result of the creation in FindOrCreateContactByEmail; personResult.Data
\* is dereferenced without a nil check
CreateContactByEmail(reply) ==
    IF reply.err THEN [id |-> 0, err |-> <<"failed to create contact">>,
                       panic |-> FALSE]
    ELSE IF ~reply.json
    THEN [id |-> 0, err |-> <<"failed to decode person response">>,
          panic |-> FALSE]
    ELSE IF ~reply.success
    THEN [id |-> 0, err |-> <<"failed to create contact in Pipedrive">>,
          panic |-> FALSE]
    ELSE IF reply.data = Null THEN [id |-> 0, err |-> <<>>, panic |-> TRUE]
    ELSE [id |-> reply.data.ID, err |-> <<>>, panic |-> FALSE]

\* FindOrCreateContactByEmail: its runs, each with the contact's id
FindOrCreateContactByEmail(email, name) ==
    UNION {
      LET search == <<SearchByEmailReq(email)>>
      IN  IF s.err
          THEN {[run |-> Run(search, <<s>>, <<"failed to search for contact">>,
                             FALSE), id |-> 0]}
          ELSE IF ~s.json
          THEN {[run |-> Run(search, <<s>>, <<"failed to decode search response">>,
                             FALSE), id |-> 0]}
          ELSE IF s.success /\ Len(s.data) > 0
          THEN {[run |-> Run(search, <<s>>, <<>>, FALSE), id |-> s.data[1].ID]}
          ELSE { LET made == CreateContactByEmail(c)
                 IN  [run |-> Run(Append(search, CreateByEmailReq(name, email)),
                                  <<s, c>>, made.err, made.panic),
                      id |-> made.id] : c \in EmailCreateReplies }
      : s \in EmailSearchReplies }

\* A lead search that never reports a lead: not what FindLeadByEmail does.
FindLeadByEmail_None(email) ==
    UNION {
      IF c.run.err # <<>> \/ c.run.panic
      THEN {[run |-> c.run, lead |-> Null]}
      ELSE { [run |-> Join(c.run, Run(<<LeadsReq(c.id)>>, <<l>>, <<>>, FALSE)),
              lead |-> Null] : l \in LeadSearchReplies }
      : c \in FindOrCreateContactByEmail(email, "") }

\* FindLeadByEmail: its runs, each with the lead found (Null for nil)
FindLeadByEmail(email) ==
    UNION {
      IF c.run.err # <<>> \/ c.run.panic
      THEN {[run |-> c.run, lead |-> Null]}
      ELSE { [run |-> Join(c.run,
                       Run(<<LeadsReq(c.id)>>, <<l>>,
                           IF l.err THEN <<"failed to search for leads">>
                           ELSE IF ~l.json
                           THEN <<"failed to decode lead search response">>
                           ELSE <<>>,
                           FALSE)),
              lead |-> IF ~l.err /\ l.json /\ l.success /\ Len(l.data) > 0
                       THEN l.data[1] ELSE Null] : l \in LeadSearchReplies }
      : c \in FindOrCreateContactByEmail(email, "") }

\* the error ProcessCalAppointment returns for the activity reply
CalActivityResult(reply) ==
    IF reply.err THEN "failed to create appointment activity"
    ELSE IF ~reply.json THEN "failed to decode activity response"
    ELSE IF ~reply.success
    THEN "failed to create appointment activity in Pipedrive"
    ELSE IF reply.data = Null THEN "panic"
    ELSE ""

\* the activity of an appointment: pending, of type meeting
MeetingReq(personID, title) ==
    [type |-> "meeting"] @@ ActivityReq(personID, 0, <<"Cal.com: ", title>>)

CalActivityRuns(personID, title) ==
    { LET err == CalActivityResult(a)
      IN  Run(<<MeetingReq(personID, title)>>, <<a>>,
              IF err \in {"", "panic"} THEN <<>> ELSE <<err>>, err = "panic") :
        a \in CalActivityReplies }

\* ProcessCalAppointment from the attendee on: the lead search, whose error
\* is ignored, the contact, the activity
CalAttendeeRuns(p, attendee) ==
    UNION {
      IF f.run.panic THEN {f.run}
      ELSE UNION {
        IF c.run.panic THEN {Join(f.run, c.run)}
        ELSE IF f.lead # Null
        THEN \* the person of the lead is used, the contact only names it
             { Join(Join(f.run, c.run), a) :
                 a \in CalActivityRuns(f.lead.PersonID, p.Title) }
        ELSE IF c.run.err # <<>>
        THEN {Join(f.run, Run(c.run.out, c.run.inp,
                              <<"failed to find/create contact: ">> \o c.run.err,
                              FALSE))}
        ELSE { Join(Join(f.run, c.run), a) :
                 a \in CalActivityRuns(c.id, p.Title) }
        : c \in FindOrCreateContactByEmail(attendee.Email, attendee.Name) }
      : f \in FindLeadByEmail(attendee.Email) }

\* ProcessCalAppointment: every run it can make for a payload.  With the
\* CRM configured it indexes the first attendee without a check.
ProcessCalAppointment(p) ==
    IF ~HasPipedriveConfig THEN {NoRun}
    ELSE IF ~ValidRFC3339(p.StartTime)
    THEN {Run(<<>>, <<>>, <<"invalid startTime format">>, FALSE)}
    ELSE IF ~ValidRFC3339(p.EndTime)
    THEN {Run(<<>>, <<>>, <<"invalid endTime format">>, FALSE)}
    ELSE IF Len(p.Attendees) = 0
    THEN {Run(<<>>, <<>>, <<>>, TRUE)}
    ELSE CalAttendeeRuns(p, p.Attendees[1])

\* The handler serving one of the given payloads: it binds and validates the
\* payload, runs ProcessCalAppointment and answers.
CalWebhook(r, payloads) ==
    /\ AcceptsEvent(r, "cal")
    /\ \E p \in payloads :
        /\ payload' = [payload EXCEPT ![r] = p]
        /\ IF p = InvalidJSON
           THEN Finish(r, BadJSON) /\ UNCHANGED <<out, inp, local>>
           ELSE IF CalPayloadNoAttendees(p)
           THEN Finish(r, CalRejectedAttendees) /\ UNCHANGED <<out, inp, local>>
           ELSE IF CalPayloadMissingFields(p)
           THEN Finish(r, CalRejectedFields) /\ UNCHANGED <<out, inp, local>>
           ELSE \E run \in ProcessCalAppointment(p) :
                  /\ local' = [local EXCEPT ![r].invoked = TRUE]
                  /\ out' = [out EXCEPT ![r] = run.out]
                  /\ inp' = [inp EXCEPT ![r] = run.inp]
                  /\ Finish(r, Answer(run, CalFailed(run.err), CalOK(p)))
    /\ UNCHANGED <<config, callMappings, now, crashed, ops, access, racedW>>

\* every body a request to the endpoint can carry
CalRequests == CalPayloads \cup {InvalidJSON}

CalWebhookHandler(r) == CalWebhook(r, CalRequests)

----------------------------------------------------------------------------
(* The four webhook endpoints together, and the two event endpoints alone  *)

NextEvents ==
    \/ \E r \in Slots : RetellWebhookHandler(r)
    \/ \E r \in Slots : CalWebhookHandler(r)
    \/ \E r \in Slots : Return(r)

SpecEvents == Init /\ [][NextEvents]_vars

\* The event payloads served next to leads and callbacks: an opt-out, and a
\* booking whose end time does not parse or that has no attendee.
OptoutPayloads == { p \in RetellPayloads : p.Event = "call.optout" }

UnprocessedBookings ==
    { p \in CalPayloads : Len(p.Attendees) = 0 \/ p.EndTime = "" }

NextAll ==
    \/ Next
    \/ \E r \in Slots : RetellWebhook(r, OptoutPayloads)
    \/ \E r \in Slots : CalWebhook(r, UnprocessedBookings)

SpecAll == Init /\ [][NextAll]_vars

----------------------------------------------------------------------------
(* Call-lifecycle events                                                   *)

Lifecycles == { r \in Slots : kind[r] = "retell" }

\* the activity was not created: no reply, or a reply that is not a success
ActivityFailed(reply) == reply.err \/ ~reply.json \/ ~reply.success

\* positions of the activity requests of r that failed
FailedActivities(r) ==
    { i \in DOMAIN inp[r] :
        out[r][i].op = "POST /activities" /\ ActivityFailed(inp[r][i]) }

\* C14: for every call-lifecycle event kind, once the contact is there, a
\* failure to create the activity does not fail the event: ProcessRetellCall
\* returns nil and the webhook is answered 200.
C14_ActivityFailureSwallowed ==
    \A r \in Lifecycles :
        (pc[r] = "done" /\ FailedActivities(r) # {}) =>
            resp[r] = RetellOK(payload[r])

----------------------------------------------------------------------------
(* Validation at the endpoints                                             *)

\* the lead handler of r has bound a payload in this step
LeadArrives(r) ==
    pc[r] = "idle" /\ kind'[r] = "lead" /\ payload'[r] # InvalidJSON

\* C15: the lead-created endpoint answers 400 without invoking
\* ProcessPipedriveLead when data.id is empty or data.person_id is zero: no
\* request goes out and the store is not touched.  With both present the
\* processor is invoked.
C15_LeadValidation ==
    [][\A r \in Slots :
        LeadArrives(r) =>
            IF payload'[r].ID = "" \/ payload'[r].PersonID = 0
            THEN /\ pc'[r] = "done"
                 /\ resp'[r] = LeadRejected
                 /\ resp'[r].status = 400
                 /\ ~local'[r].invoked
                 /\ out'[r] = <<>>
                 /\ access'[r] = "none"
                 /\ callMappings' = callMappings
            ELSE /\ local'[r].invoked
                 /\ resp'[r].status # 400]_vars

\* a lead without person id has been rejected next to one that was processed
C15_Witness ==
    \E r \in Leads, q \in Leads :
        /\ pc[r] = "done" /\ payload[r] # InvalidJSON
        /\ payload[r].ID # "" /\ payload[r].PersonID = 0
        /\ resp[r].status = 400 /\ ~local[r].invoked
        /\ payload[q] # InvalidJSON /\ local[q].invoked /\ Len(out[q]) > 0

----------------------------------------------------------------------------
(* The standalone server (package main): its lead endpoint is the same     *)
(* code, its call-analyzed endpoint answers without reading the request.   *)

StandaloneAnalyzedOK ==
    WebhookResponse(200, TRUE,
                    "Retell call analyzed webhook processed successfully", NoData)

\* RetellCallAnalyzedHandler of the standalone server: the body is not bound
StandaloneRetellCallAnalyzedHandler(r) ==
    /\ Accepts(r, "analyzed", MaxAnalyzed)
    /\ \E p \in AnalyzedPayloads \cup {InvalidJSON} :
        payload' = [payload EXCEPT ![r] = p]
    /\ Finish(r, StandaloneAnalyzedOK)
    /\ UNCHANGED <<config, callMappings, now, crashed, ops, local, out, inp,
                   access, racedW>>

NextStandalone ==
    \/ \E r \in Slots : PipedriveLeadWebhookHandler(r)
    \/ \E r \in Slots : LeadGetPersonReturns(r)
    \/ \E r \in Slots : LeadCreateCallReturns(r)
    \/ \E r \in Slots : LeadStoreCallMapping(r)
    \/ \E r \in Slots : LeadActivityReturns(r)
    \/ \E r \in Slots : StandaloneRetellCallAnalyzedHandler(r)
    \/ \E r \in Slots : Return(r)
    \/ Tick
    \/ ConcurrentMapFatal

SpecStandalone == Init /\ [][NextStandalone]_vars

\* the call-analyzed handler of r has received a well-formed body in this step
AnalyzedArrives(r) ==
    pc[r] = "idle" /\ kind'[r] = "analyzed" /\ payload'[r] # InvalidJSON

\* C16: the call-analyzed endpoint answers 400 without processing when
\* call.call_id is empty; for a payload with a call id it runs
\* ProcessRetellCallAnalyzed, and it answers 200 only after having run it.
C16_AnalyzedValidation ==
    [][\A r \in Slots :
        /\ AnalyzedArrives(r) =>
              IF payload'[r].CallID = EmptyStr
              THEN /\ pc'[r] = "done"
                   /\ resp'[r].status = 400
                   /\ ~local'[r].invoked
              ELSE /\ local'[r].invoked
                   /\ resp'[r].status # 400
        /\ (kind'[r] = "analyzed" /\ pc'[r] = "done"
              /\ resp'[r].status = 200) => local'[r].invoked]_vars

Bookings == { r \in Slots : kind[r] = "cal" }

\* the appointment handler of r has bound a payload in this step
CalArrives(r) ==
    pc[r] = "idle" /\ kind'[r] = "cal" /\ payload'[r] # InvalidJSON

\* C17: the appointment-booked endpoint answers 400 when the attendee list
\* is empty or startTime or location is empty, so ProcessCalAppointment, which
\* reads the first attendee, is never run with an empty attendee list.
C17_CalValidation ==
    [][\A r \in Slots :
        CalArrives(r) =>
            /\ (\/ Len(payload'[r].Attendees) = 0
                \/ payload'[r].StartTime = ""
                \/ payload'[r].Location = "") =>
                  /\ pc'[r] = "done"
                  /\ resp'[r].status = 400 /\ ~resp'[r].success
                  /\ ~local'[r].invoked
                  /\ out'[r] = <<>>
            /\ local'[r].invoked => Len(payload'[r].Attendees) > 0]_vars

\* a booking without attendees has been rejected next to one whose first
\* attendee was looked up
C17_Witness ==
    \E r \in Bookings, q \in Bookings :
        /\ pc[r] = "done" /\ payload[r] # InvalidJSON
        /\ Len(payload[r].Attendees) = 0
        /\ resp[r] = CalRejectedAttendees
        /\ payload[q] # InvalidJSON /\ local[q].invoked
        /\ Len(out[q]) > 0
        /\ out[q][1] = SearchByEmailReq(payload[q].Attendees[1].Email)

----------------------------------------------------------------------------
(* Outcomes of a webhook request                                           *)

\* what the handlers put before the processor's error text
FailurePrefixes ==
    {"Failed to process call: ", "Failed to process call analyzed: ",
     "Failed to process lead: ", "Failed to process appointment: "}

\* the answer is a WebhookResponse written by the handler
IsWebhookResponse(response) ==
    DOMAIN response = {"status", "success", "message", "data"}

\* C18: every webhook request gets one of three outcomes: 400 with
\* success = false when validation fails and the processor is not run, 500
\* with success = false and the processor's error text in message when the
\* processor returns an error, 200 with success = true when it returns none.
C18_ThreeOutcomes ==
    \A r \in Slots :
        pc[r] = "done" =>
            /\ IsWebhookResponse(resp[r])
            /\ \/ /\ resp[r].status = 400 /\ ~resp[r].success
                  /\ ~local[r].invoked
               \/ /\ resp[r].status = 500 /\ ~resp[r].success
                  /\ local[r].invoked
                  /\ Len(resp[r].message) = 2
                  /\ resp[r].message[1] \in FailurePrefixes
                  /\ resp[r].message[2] # <<>>
               \/ /\ resp[r].status = 200 /\ resp[r].success
                  /\ local[r].invoked

----------------------------------------------------------------------------
(* Call requests of a lead event                                           *)

\* the call-creation requests among the given requests
CallRequests(requests) ==
    { i \in DOMAIN requests : requests[i].op = "POST /v2/create-phone-call" }

\* C19: ProcessPipedriveLead sends at most one call-creation request per
\* lead event.  After a failed request it goes on with the placeholder
\* identifier into the record step, and what it sends next is the activity
\* request, not another call request.
C19_AtMostOneCallRequest ==
    [][\A r \in Slots :
        /\ Cardinality(CallRequests(out'[r])) <= 1
        /\ (Answered(r, "lead_create_call")
              /\ CreateRetellCall(LastReply(r)).err # "") =>
              /\ pc'[r] = "lead_storing" /\ access'[r] = "write"
              /\ local'[r].callID = Str_failed \o FormatInt(now)
              /\ out'[r] = out[r]
        /\ (pc[r] = "lead_storing" /\ pc'[r] # "lead_storing"
              /\ local[r].callErr # "") =>
              /\ local'[r].stores = 1
              /\ out'[r] = Append(out[r], ActivityReq(payload[r].PersonID, 0,
                                                      "AI Call Initiated - Lead"))
              /\ pc'[r] = "lead_activity"]_vars

\* a lead whose call request failed has been answered, with one call request
\* sent and the placeholder in the store
C19_Witness ==
    \E r \in Leads :
        /\ pc[r] = "done" /\ local[r].callErr # ""
        /\ Cardinality(CallRequests(out[r])) = 1
        /\ HasPrefix(local[r].callID, Str_failed)
        /\ local[r].callID \in DOMAIN callMappings
        /\ resp[r].status = 200

----------------------------------------------------------------------------
(* Who changes the correlation store                                       *)

\* C20: the store is changed only by the record step of the lead processor;
\* call-analyzed, call-lifecycle and appointment processing leave it as it
\* is, and no step removes an entry: the stored identifiers only grow.
C20_OnlyRecordChangesStore ==
    [][/\ DOMAIN callMappings \subseteq DOMAIN callMappings'
       /\ callMappings' # callMappings =>
             \E r \in Slots : kind[r] = "lead" /\ LeadRecorded(r)
       /\ \A r \in Slots :
             (kind'[r] \in {"analyzed", "retell", "cal"} /\ pc'[r] # pc[r]) =>
                 callMappings' = callMappings]_vars

\* with a mapping in the store, a callback has found it and a lifecycle or
\* appointment event has been processed
C20_Witness ==
    \E r \in Slots, q \in Slots :
        /\ kind[r] \in {"retell", "cal"} /\ pc[r] = "done" /\ local[r].invoked
        /\ kind[q] = "analyzed" /\ pc[q] = "done" /\ local[q].exists
        /\ callMappings # <<>>

----------------------------------------------------------------------------
(* Simulation mode                                                         *)

\* the credentials as the environment set them
CRMKeyMissing == config.PipedriveAPIKey = ""
CallKeysMissing == config.RetellAPIKey = "" \/ config.RetellAssistantID = ""

\* the processor of r runs in simulation mode
Simulated(r) ==
    /\ local[r].invoked
    /\ \/ CRMKeyMissing
       \/ kind[r] = "lead" /\ CallKeysMissing

\* C21: without the CRM key every processor returns success without sending
\* a request and without changing the store; the lead processor does the
\* same when the CRM key or the call-automation credentials are missing.
C21_SimulationMode ==
    /\ \A r \in Slots :
          Simulated(r) =>
              /\ pc[r] = "done"
              /\ out[r] = <<>> /\ inp[r] = <<>>
              /\ access[r] = "none"
              /\ resp[r].status = 200 /\ resp[r].success
    /\ (CRMKeyMissing \/ CallKeysMissing) => callMappings = <<>>

\* a lead with action "create" and a lifecycle event have both been
\* processed in simulation mode
C21_Witness ==
    \E r \in Slots, q \in Slots :
        /\ kind[r] = "lead" /\ Simulated(r) /\ ~CRMKeyMissing
        /\ payload[r].Action = "create"
        /\ kind[q] \in {"retell", "cal", "analyzed"} /\ local[q].invoked
        /\ resp[q].status = 200

----------------------------------------------------------------------------
(* The serverless entry point of the standalone file: Handler builds the   *)
(* router, the configuration and a new PipedriveService for every request. *)
(* A service that lives for one request shares nothing, so the requests    *)
(* are taken one at a time.                                                *)

\* no request is being served
AllIdle == \A q \in Slots : pc[q] = "idle"

\* Handler returns: the service it built, the store with it, is dropped
HandlerReturns(r) ==
    /\ ~crashed
    /\ pc[r] = "done"
    /\ pc' = [pc EXCEPT ![r] = "idle"]
    /\ kind' = [kind EXCEPT ![r] = "none"]
    /\ payload' = [payload EXCEPT ![r] = NoPayload]
    /\ local' = [local EXCEPT ![r] = ZeroLocal]
    /\ out' = [out EXCEPT ![r] = <<>>]
    /\ inp' = [inp EXCEPT ![r] = <<>>]
    /\ resp' = [resp EXCEPT ![r] = NoResponse]
    /\ callMappings' = <<>>
    /\ UNCHANGED <<config, now, crashed, received, ops, access, racedW>>

NextPerRequest ==
    \/ \E r \in Slots : AllIdle /\ PipedriveLeadWebhookHandler(r)
    \/ \E r \in Slots : LeadGetPersonReturns(r)
    \/ \E r \in Slots : LeadCreateCallReturns(r)
    \/ \E r \in Slots : LeadStoreCallMapping(r)
    \/ \E r \in Slots : LeadActivityReturns(r)
    \/ \E r \in Slots : AllIdle /\ StandaloneRetellCallAnalyzedHandler(r)
    \/ \E r \in Slots : HandlerReturns(r)
    \/ Tick

SpecPerRequest == Init /\ [][NextPerRequest]_vars

\* C22: the service and its store are built once and shared by all
\* requests: a mapping recorded while one request is handled is still in
\* the store for every later request of the running process.
C22_StoreOutlivesRequest ==
    [][~crashed' =>
          \A c \in DOMAIN callMappings : c \in DOMAIN callMappings']_vars

----------------------------------------------------------------------------
(* What the call-lifecycle events write                                    *)

\* a lifecycle event that ProcessRetellCall has processed with the CRM
\* configured and returned nil for
LifecycleProcessed(r) ==
    /\ r \in Lifecycles /\ pc[r] = "done"
    /\ ~CRMKeyMissing
    /\ resp[r].status = 200

\* the contact FindOrCreateContactByPhone returned to r: the one the search
\* found, or else the one created
ContactOf(r) ==
    IF SearchFound(inp[r][1]) THEN inp[r][1].data[1].ID
    ELSE inp[r][2].data.ID

\* C23: whenever an opt-out event is processed successfully, the
\* do-not-call label was put on the found-or-created contact before the
\* opt-out activity was requested.
C23_OptoutLabelsContact ==
    \A r \in Slots :
        (LifecycleProcessed(r) /\ payload[r].Event = "call.optout") =>
            LET n == Len(out[r])
            IN  /\ n >= 3
                /\ out[r][n - 1] = LabelReq(ContactOf(r))
                /\ ~inp[r][n - 1].err
                /\ out[r][n] = ActivityReq(ContactOf(r), 1, "Customer Opted Out")

\* an opt-out for a number without contact has been processed: the contact
\* was created, labelled, and the activity written
C23_Witness ==
    \E r \in Slots :
        /\ LifecycleProcessed(r) /\ payload[r].Event = "call.optout"
        /\ ~SearchFound(inp[r][1])
        /\ out[r][2] = CreatePersonReq("Unknown Caller", payload[r].ContactPhone)
        /\ Len(out[r]) = 5

\* the subject and the completion flag of the activity of each event kind
EventActivity ==
    [call_started |-> [subject |-> "AI Call Started", done |-> 0],
     call_ended |-> [subject |-> "AI Call Ended", done |-> 1]]
    @@ ("call.completed" :> [subject |-> "AI Call Completed", done |-> 1])
    @@ ("call.hangup" :> [subject |-> "Customer Hung Up", done |-> 1])
    @@ ("call.optout" :> [subject |-> "Customer Opted Out", done |-> 1])

\* the positions of the activity-creation requests of r
ActivityRequests(r) ==
    { i \in 1..Len(out[r]) : out[r][i].op = "POST /activities" }

\* C24: a successfully processed event of a recognised kind first looked the
\* contact up by the payload's phone number (creating it when nobody was
\* found) and then requested exactly one activity, for that contact, with
\* the subject and the completion flag of its event kind; no event requests
\* more than one activity.
C24_OneActivityPerEvent ==
    \A r \in Slots :
        /\ (r \in Lifecycles /\ pc[r] = "done")
              => Cardinality(ActivityRequests(r)) <= 1
        /\ (LifecycleProcessed(r) /\ payload[r].Event \in DOMAIN EventActivity)
              => LET n == Len(out[r])
                     a == EventActivity[payload[r].Event]
                 IN  /\ n >= 2
                     /\ out[r][1] = SearchPersonReq(payload[r].ContactPhone)
                     /\ \/ SearchFound(inp[r][1])
                        \/ out[r][2] = CreatePersonReq("Unknown Caller",
                                                       payload[r].ContactPhone)
                     /\ ActivityRequests(r) = {n}
                     /\ out[r][n] = ActivityReq(ContactOf(r), a.done, a.subject)

\* a call-started event has been processed: its one activity is pending
C24_Witness ==
    \E r \in Slots :
        /\ LifecycleProcessed(r) /\ payload[r].Event = "call_started"
        /\ ActivityRequests(r) = {Len(out[r])}
        /\ out[r][Len(out[r])].done = 0

----------------------------------------------------------------------------
(* What an appointment-booked event writes                                 *)

\* an appointment that ProcessCalAppointment has processed with the CRM
\* configured and returned nil for
CalProcessed(r) ==
    /\ r \in Bookings /\ pc[r] = "done"
    /\ ~CRMKeyMissing
    /\ resp[r].status = 200

\* the lead FindLeadByEmail returned to r (Null for nil)
LeadOf(r) ==
    LET found == { i \in 1..Len(out[r]) :
                     /\ out[r][i].op = "GET /leads"
                     /\ ~inp[r][i].err /\ inp[r][i].json /\ inp[r][i].success
                     /\ Len(inp[r][i].data) > 0 }
    IN  IF found = {} THEN Null
        ELSE inp[r][CHOOSE i \in found : TRUE].data[1]

\* the contact the last FindOrCreateContactByEmail of r returned: the request
\* before the activity is its search, or its creation
BookedContact(r) ==
    LET i == Len(out[r]) - 1
    IN  IF out[r][i].op = "POST /persons" THEN inp[r][i].data.ID
        ELSE inp[r][i].data[1].ID

\* C25: a successfully processed appointment requested exactly one activity,
\* of type meeting, for the contact of the lead found by the first
\* attendee's email when there is one, and otherwise for the contact found
\* or created by that email.
C25_MeetingOnLeadContact ==
    \A r \in Slots :
        CalProcessed(r) =>
            LET n == Len(out[r])
            IN  /\ n >= 2
                /\ ActivityRequests(r) = {n}
                /\ out[r][n].type = "meeting"
                /\ out[r][n].person_id =
                       IF LeadOf(r) # Null THEN LeadOf(r).PersonID
                       ELSE BookedContact(r)

\* an appointment whose attendee has a lead has been processed, and the
\* lead's contact is not the one the search by email returns
C25_Witness ==
    \E r \in Slots :
        /\ CalProcessed(r)
        /\ LeadOf(r) # Null
        /\ LeadOf(r).PersonID # BookedContact(r)
        /\ out[r][Len(out[r])].person_id = LeadOf(r).PersonID

\* the positions of the requests of r that write to the CRM
WriteRequests(r) ==
    { i \in 1..Len(out[r]) :
        out[r][i].op \in {"POST /persons", "PUT /persons/{id}",
                          "POST /activities", "POST /notes"} }

\* C28: a call-lifecycle event whose kind is none of the five recognised ones
\* is a successful no-op: ProcessRetellCall returns nil for it and has sent
\* no request that writes to the CRM.
C28_UnknownEventNoOp ==
    \A r \in Slots :
        ( /\ r \in Lifecycles /\ pc[r] = "done"
          /\ local[r].invoked
          /\ payload[r].Event \notin DOMAIN EventActivity )
            => /\ resp[r] = RetellOK(payload[r])
               /\ WriteRequests(r) = {}

\* the positions of the contact-creation requests of r
ContactCreations(r) ==
    { i \in 1..Len(out[r]) : out[r][i].op = "POST /persons" }

\* the first search by the attendee's email answered that nobody has it
NoContactYet(r) ==
    /\ Len(inp[r]) >= 1
    /\ out[r][1] = SearchByEmailReq(payload[r].Attendees[1].Email)
    /\ ~inp[r][1].err /\ inp[r][1].json /\ Len(inp[r][1].data) = 0

\* C29: when no contact exists for the first attendee's email, a
\* successfully processed appointment has created exactly one contact, and
\* created it with the attendee's name.
C29_OneNamedContact ==
    \A r \in Slots :
        (CalProcessed(r) /\ NoContactYet(r)) =>
            /\ Cardinality(ContactCreations(r)) = 1
            /\ \A i \in ContactCreations(r) :
                  out[r][i] = CreateByEmailReq(payload[r].Attendees[1].Name,
                                               payload[r].Attendees[1].Email)

----------------------------------------------------------------------------
(* The keys of the correlation store                                       *)

\* C26: every key of the correlation store is a non-empty call identifier,
\* whatever the call-automation platform answered to the call-creation
\* request.
C26_KeysNonEmpty ==
    \A c \in DOMAIN callMappings : c # EmptyStr

----------------------------------------------------------------------------
(* The callback of a call whose lead event is still being processed        *)

\* the lead processor of l has placed the call c: the call-creation request
\* has returned c without error
Placed(l, c) ==
    /\ kind[l] = "lead"
    /\ pc[l] \in {"lead_storing", "lead_activity", "done"}
    /\ local[l].callErr = ""
    /\ local[l].callID = c

\* the lookup of r returns what the map holds for its call at this moment
ReadsStore(r) ==
    local'[r].exists = (payload[r].CallID \in DOMAIN callMappings)

\* C27: a call-analyzed callback for a call that a lead processor has placed
\* is attributed to that lead's contact, whenever its lookup runs: also after
\* the call-creation request has returned and before the mapping is
\* recorded.
C27_CallbackAttributedInEveryOrder ==
    [][\A r \in Slots : \A l \in Slots :
        (/\ LookupReturns(r) /\ ~crashed'
         /\ ReadsStore(r)
         /\ Placed(l, payload[r].CallID))
            => /\ local'[r].exists
               /\ local'[r].callMapping.PersonID = payload[l].PersonID]_vars

----------------------------------------------------------------------------
(* The meeting duration on its own: the duration string of                 *)
(* ProcessCalAppointment for start and end instants a day, a second or     *)
(* centuries apart.  Instants are whole seconds, given as a day number and *)
(* the second of that day.                                                 *)

SecondsPerDay == 86400

\* time.Duration counts nanoseconds in an int64: the longest duration is
\* 106751 days 23:47:16.854775807, and Time.Sub returns it for any longer
\* interval (and the shortest one for intervals below it)
MaxDurationDays == 106751
MaxDurationSecs == 85636

\* seconds tried after each mark of the day
MaxClock == 2

ClockMarks == {0, 59, 3599, MaxDurationSecs}
Clocks == { m + k : m \in ClockMarks, k \in 0..MaxClock }
Days == {0, 1, MaxDurationDays, MaxDurationDays + 1}

\* what time.Parse returns for the payload's startTime and endTime
Instants == [day : Days, sec : Clocks]

\* Time.Before
Before(t, u) == t.day < u.day \/ (t.day = u.day /\ t.sec < u.sec)

\* the interval from u to t, u not after t, in days and seconds
Between(t, u) ==
    IF t.sec >= u.sec
    THEN [days |-> t.day - u.day, secs |-> t.sec - u.sec]
    ELSE [days |-> t.day - u.day - 1, secs |-> t.sec - u.sec + SecondsPerDay]

\* Time.Sub: t - u as a Duration, its sign apart, saturated at the longest
\* Duration
Sub(t, u) ==
    LET neg == Before(t, u)
        d == IF neg THEN Between(u, t) ELSE Between(t, u)
        over == \/ d.days > MaxDurationDays
                \/ d.days = MaxDurationDays /\ d.secs > MaxDurationSecs
    IN  [neg |-> neg,
         days |-> IF over THEN MaxDurationDays ELSE d.days,
         secs |-> IF over THEN MaxDurationSecs ELSE d.secs]

\* int(x) truncates toward zero and % takes the sign of the dividend
Signed(d, n) == IF d.neg THEN 0 - n ELSE n

\* int(duration.Hours())
DurationHours(d) == Signed(d, d.days * 24 + d.secs \div 3600)

\* int(duration.Minutes()) % 60
DurationMinutes(d) == Signed(d, (d.days * 1440 + d.secs \div 60) % 60)

\* int(duration.Seconds()) % 60; the days are reduced modulo 60 first, which
\* leaves the remainder unchanged
DurationSeconds(d) ==
    Signed(d, ((d.days % 60) * SecondsPerDay + d.secs) % 60)

DigitChars == <<"0", "1", "2", "3", "4", "5", "6", "7", "8", "9">>

RECURSIVE Digits(_)
Digits(n) ==
    IF n < 10 THEN <<DigitChars[n + 1]>>
    ELSE Append(Digits(n \div 10), DigitChars[(n % 10) + 1])

\* fmt's %02d: at least two characters, zero-padded, the sign counted
Pad2(n) ==
    IF n < 0 THEN <<"-">> \o Digits(0 - n)
    ELSE IF n < 10 THEN <<"0">> \o Digits(n)
    ELSE Digits(n)

\* fmt.Sprintf("%02d:%02d:%02d", h, m, s)
Clock(h, m, s) == Pad2(h) \o <<":">> \o Pad2(m) \o <<":">> \o Pad2(s)

\* durationStr of ProcessCalAppointment
DurationStr(startTime, endTime) ==
    LET duration == Sub(endTime, startTime)
    IN  Clock(DurationHours(duration), DurationMinutes(duration),
              DurationSeconds(duration))

\* one computation of the duration string, its arguments and result logged
RenderDuration ==
    /\ ops = <<>>
    /\ \E s \in Instants, e \in Instants :
         ops' = <<[op |-> "duration", start |-> s, end |-> e,
                   result |-> DurationStr(s, e)]>>
    /\ UNCHANGED <<config, callMappings, now, crashed, received, perReq,
                   mapAcc>>

NextDuration == RenderDuration

SpecDuration == InitPhone /\ [][NextDuration]_vars

\* HH:MM:SS for d = days * 86400 + secs whole seconds: d div 3600,
\* (d div 60) mod 60 and d mod 60
ExpectedDuration(d) ==
    Clock(d.days * 24 + d.secs \div 3600, (d.secs \div 60) % 60, d.secs % 60)

\* C30: for a start that is not after the end, the duration string is
\* HH:MM:SS of d, the whole seconds from start to end: hours d div 3600,
\* minutes (d div 60) mod 60, seconds d mod 60.
C30_DurationRendered ==
    \A i \in 1..Len(ops) :
        (ops[i].op = "duration" /\ ~Before(ops[i].end, ops[i].start)) =>
            ops[i].result = ExpectedDuration(Between(ops[i].end, ops[i].start))

====
